---- MODULE Spec2Model ----
(***************************************************************************)
(* A model of the content-extraction pipeline: the ExtractorManager        *)
(* dispatcher (content_extraction/base.py), the start-up discovery of      *)
(* TechContentExtractor (tech_content_extractor.py) and the five           *)
(* extractors of content_extraction/extractors.                            *)
(*                                                                         *)
(* Strings are modelled as sequences of tokens.  A token is a short piece  *)
(* of text; the string a sequence stands for is the concatenation of its   *)
(* tokens.  The delimiters the code looks for ("://", "/", "?", "#", ".")  *)
(* always sit at the front of a token, so that splitting, prefix, suffix   *)
(* and substring tests are computed on tokens the way the code computes    *)
(* them on characters.                                                     *)
(***************************************************************************)
EXTENDS Integers, Sequences, FiniteSets, TLC

VARIABLES
    extractors,   \* ExtractorManager.extractors: the registered extractor kinds, in order
    items,        \* ExtractorManager.items: the accumulated records
    returned,     \* history: the lists returned by extract since items was last reassigned, concatenated
    last,         \* the last ExtractorManager.extract call as its caller and the extractors saw it
    startup,      \* TechContentExtractor._register_extractors: the modules still to be imported
    probe,        \* the source string and environment a can_handle probe runs in
    answers,      \* the answers of the five can_handle predicates to the probe
    run           \* one extractor's extract call: its kind, source, environment and outcome

vars == <<extractors, items, returned, last, startup, probe, answers, run>>

----------------------------------------------------------------------------
(* Sequences and token strings *)

Last(s) == s[Len(s)]

\* The index of the first element of s that is in S, or Len(s) + 1.
IndexOfFirst(s, S) ==
    IF \E i \in DOMAIN s : s[i] \in S
    THEN CHOOSE i \in DOMAIN s : s[i] \in S /\ \A j \in 1..(i - 1) : s[j] \notin S
    ELSE Len(s) + 1

RECURSIVE StrLen(_)
\* len(s) of the string a token sequence stands for.
StrLen(s) == IF s = <<>> THEN 0 ELSE Len(Head(s)) + StrLen(Tail(s))

\* The tokens of the source alphabet, by the character they start with.
SchemeToks == {"http://", "https://", "ftp://"}
SlashToks == {"/owner", "/repo", "/", "/file", "/d", "/1AbC", "/document"}
QueryToks == {"?raw=1", "?ref=github.com", "?id=1AbC"}
FragmentToks == {"#intro"}

\* str.lower() of one token.
LowerTok(t) ==
    CASE t = "GitHub.com" -> "github.com"
      [] t = ".MD" -> ".md"
      [] t = "/1AbC" -> "/1abc"
      [] t = "?id=1AbC" -> "?id=1abc"
      [] OTHER -> t

\* str.lower() of a string.
Lower(s) == [i \in DOMAIN s |-> LowerTok(s[i])]

\* The domain names the matchers look for that occur inside a (lower-case) token.
NeedlesIn(t) ==
    CASE t \in {"github.com", "www.github.com", "[github.com", "?ref=github.com"} -> {"github.com"}
      [] t = "news.substack.com" -> {"substack.com"}
      [] t = "drive.google.com" -> {"drive.google.com"}
      [] OTHER -> {}

\* needle in s
Contains(s, needle) == \E i \in DOMAIN s : needle \in NeedlesIn(s[i])

\* s.endswith(suffix), for the suffixes ".md" and ".pdf"
EndsWith(s, suffix) == s # <<>> /\ Last(s) = suffix

\* s.startswith(("http://", "https://"))
StartsWithHttp(s) == s # <<>> /\ Head(s) \in {"http://", "https://"}

----------------------------------------------------------------------------
(* urllib.parse.urlparse, as far as the matchers use it *)

SchemeOf(t) ==
    CASE t = "http://" -> "http"
      [] t = "https://" -> "https"
      [] t = "ftp://" -> "ftp"

\* A netloc token with "[" and no "]": urlsplit raises ValueError("Invalid IPv6 URL").
UnbalancedBracket(t) == t \in {"[github.com", "[::1"}

\* urlparse(source): ok is FALSE when it raises ValueError.  query and fragment
\* keep their leading "?" and "#" token.
urlparse(source) ==
    LET hasScheme == source # <<>> /\ Head(source) \in SchemeToks
        rest == IF hasScheme THEN Tail(source) ELSE source
        n == IF hasScheme
             THEN IndexOfFirst(rest, SlashToks \cup QueryToks \cup FragmentToks) - 1
             ELSE 0
        netloc == SubSeq(rest, 1, n)
        url == SubSeq(rest, n + 1, Len(rest))
        f == IndexOfFirst(url, FragmentToks)
        beforeFragment == SubSeq(url, 1, f - 1)
        q == IndexOfFirst(beforeFragment, QueryToks)
    IN  [ ok |-> \A i \in DOMAIN netloc : ~UnbalancedBracket(netloc[i]),
          scheme |-> IF hasScheme THEN SchemeOf(Head(source)) ELSE "",
          netloc |-> netloc,
          path |-> SubSeq(beforeFragment, 1, q - 1),
          query |-> SubSeq(beforeFragment, q, Len(beforeFragment)),
          fragment |-> SubSeq(url, f, Len(url)) ]

\* len(path.strip("/").split("/"))
PathParts(path) ==
    LET solid == {i \in DOMAIN path : path[i] # "/"}
    IN  IF solid = {} THEN 1
        ELSE LET lo == CHOOSE i \in solid : \A j \in solid : i <= j
                 hi == CHOOSE i \in solid : \A j \in solid : j <= i
                 slashes == Cardinality({i \in lo..hi : path[i] \in SlashToks})
             IN  slashes - (IF path[lo] \in SlashToks THEN 1 ELSE 0) + 1

----------------------------------------------------------------------------
(* can_handle of the five extractors.  The answer is "True", "False" or      *)
(* "ValueError" (the exception urlparse raises, which can_handle lets out). *)
(* isfile is os.path.isfile(source) in the environment of the call.         *)

Kinds == {"GenericBlogExtractor", "GitHubExtractor", "MarkdownExtractor",
          "PDFExtractor", "SubstackExtractor"}

Bool(b) == IF b THEN "True" ELSE "False"

BlogCanHandle(source) ==
    Bool(/\ StartsWithHttp(source)
         /\ ~ \/ Contains(Lower(source), "substack.com")
              \/ Contains(Lower(source), "drive.google.com")
              \/ Contains(Lower(source), "github.com")
              \/ EndsWith(Lower(source), ".pdf")
              \/ EndsWith(Lower(source), ".md"))

GitHubCanHandle(source) ==
    LET parsed_url == urlparse(source)
    IN  IF ~parsed_url.ok THEN "ValueError"
        ELSE Bool(/\ parsed_url.netloc \in {<<"github.com">>, <<"www.github.com">>}
                  /\ PathParts(parsed_url.path) >= 2)

MarkdownCanHandle(source, isfile) ==
    IF isfile /\ EndsWith(Lower(source), ".md") THEN "True"
    ELSE LET parsed_url == urlparse(source)
         IN  IF ~parsed_url.ok THEN "ValueError"
             ELSE Bool(/\ parsed_url.scheme \in {"http", "https"}
                       /\ EndsWith(Lower(parsed_url.path), ".md"))

PDFCanHandle(source) ==
    Bool(\/ EndsWith(Lower(source), ".pdf")
         \/ Contains(Lower(source), "drive.google.com"))

SubstackCanHandle(source) == Bool(Contains(Lower(source), "substack.com"))

can_handle(kind, source, isfile) ==
    CASE kind = "GenericBlogExtractor" -> BlogCanHandle(source)
      [] kind = "GitHubExtractor" -> GitHubCanHandle(source)
      [] kind = "MarkdownExtractor" -> MarkdownCanHandle(source, isfile)
      [] kind = "PDFExtractor" -> PDFCanHandle(source)
      [] kind = "SubstackExtractor" -> SubstackCanHandle(source)

----------------------------------------------------------------------------
(* Text: a sequence of lines, each a token string; "" is the empty sequence. *)
(* The string a text stands for is its lines joined by "\n".                 *)

RECURSIVE Pad(_)
\* A run of n non-blank characters.
Pad(n) == IF n = 0 THEN "" ELSE "x" \o Pad(n - 1)

RECURSIVE SumLen(_)
SumLen(text) == IF text = <<>> THEN 0 ELSE StrLen(Head(text)) + SumLen(Tail(text))

\* len(text)
TextLen(text) == IF text = <<>> THEN 0 ELSE SumLen(text) + Len(text) - 1

WhitespaceToks == {" ", "\n", "\n\n"}

RECURSIVE LStrip(_)
LStrip(s) == IF s # <<>> /\ Head(s) \in WhitespaceToks THEN LStrip(Tail(s)) ELSE s

RECURSIVE RStrip(_)
RStrip(s) ==
    IF s # <<>> /\ Last(s) \in WhitespaceToks THEN RStrip(SubSeq(s, 1, Len(s) - 1)) ELSE s

\* str.strip()
Strip(s) == RStrip(LStrip(s))

\* Python's None, where a token string is expected.
None == <<"None">>

\* uuid.uuid5(uuid.NAMESPACE_URL, text): a hash of text, taken as injective.
uuid5(text) == <<"uuid5">> \o text

\* content_extraction.utils.generate_unique_id(text)
generate_unique_id(text) == uuid5(text)

\* ContentItem.__init__: the fields of a record.
ContentItem(content_id, title, content, source_url, content_type) ==
    [ id |-> content_id, title |-> title, content |-> content,
      source_url |-> source_url, content_type |-> content_type ]

\* What a call hands back: a list, or an exception that leaves the call.
Return(list) == [raised |-> FALSE, items |-> list]
Raise == [raised |-> TRUE, items |-> <<>>]

----------------------------------------------------------------------------
(* MarkdownExtractor *)

\* re.compile(r'^# (.+)$', re.MULTILINE).search(content): the lines it matches.
IsH1Line(line) == Len(line) >= 3 /\ line[1] = "#" /\ line[2] = " "

\* re.compile(r'^(.+)\n=+\s*$', re.MULTILINE).search(content): line i is not
\* empty and line i + 1 is a run of "=" with nothing but blanks after it.
IsUnderlined(text, i) ==
    /\ i + 1 <= Len(text)
    /\ text[i] # <<>>
    /\ text[i + 1] # <<>>
    /\ Head(text[i + 1]) = "==="
    /\ Strip(Tail(text[i + 1])) = <<>>

\* The name of a path segment token, without its "/".
SegmentName(t) ==
    CASE t = "/owner" -> <<"owner">>
      [] t = "/repo" -> <<"repo">>
      [] t = "/" -> <<>>
      [] t = "/file" -> <<"file">>
      [] t = "/d" -> <<"d">>
      [] t = "/1AbC" -> <<"1AbC">>
      [] t = "/document" -> <<"document">>
      [] OTHER -> <<t>>

\* A host name without its last suffix.
HostStem(t) ==
    CASE t = "example.com" -> "example"
      [] t = "github.com" -> "github"
      [] t = "www.github.com" -> "www.github"
      [] t = "GitHub.com" -> "GitHub"
      [] t = "news.substack.com" -> "news.substack"
      [] t = "drive.google.com" -> "drive.google"
      [] OTHER -> t

\* The last "/"-separated component of a path; a scheme token ends in "/".
LastComponent(path) ==
    LET slashed == {i \in DOMAIN path : path[i] \in SlashToks \cup SchemeToks}
        from == IF slashed = {} THEN 1 ELSE CHOOSE i \in slashed : \A j \in slashed : j <= i
    IN  IF path = <<>> THEN <<>>
        ELSE IF path[from] \in SchemeToks THEN SubSeq(path, from + 1, Len(path))
        ELSE IF path[from] \in SlashToks
        THEN SegmentName(path[from]) \o SubSeq(path, from + 1, Len(path))
        ELSE path

\* Path(name).stem of the last "/"-separated component of a path: the component
\* without its last suffix (a name that is only a suffix keeps it).
Stem(path) ==
    LET name == LastComponent(path)
    IN  IF Len(name) >= 2 /\ Last(name) \in {".md", ".MD", ".pdf"}
        THEN SubSeq(name, 1, Len(name) - 1)
        ELSE IF name # <<>>
        THEN SubSeq(name, 1, Len(name) - 1) \o <<HostStem(Last(name))>>
        ELSE name

\* path.strip('/'): the path without its leading and trailing bare "/".
StripSlashes(path) ==
    LET solid == {i \in DOMAIN path : path[i] # "/"}
    IN  IF solid = {} THEN <<>>
        ELSE SubSeq(path, CHOOSE i \in solid : \A j \in solid : i <= j,
                          CHOOSE i \in solid : \A j \in solid : j <= i)

MarkdownExtractTitle(content, source, isfile) ==
    LET h1 == {i \in DOMAIN content : IsH1Line(content[i])}
        ul == {i \in DOMAIN content : IsUnderlined(content, i)}
        first(S) == CHOOSE i \in S : \A j \in S : i <= j
    IN  IF h1 # {} THEN Strip(SubSeq(content[first(h1)], 3, Len(content[first(h1)])))
        ELSE IF ul # {} THEN Strip(content[first(ul)])
        ELSE IF isfile THEN Stem(source)
        ELSE IF StartsWithHttp(source) THEN Stem(StripSlashes(urlparse(source).path))
        ELSE <<"Untitled Markdown Document">>

\* _extract_title raises: the URL fallback calls urlparse, which raises ValueError.
MarkdownTitleRaises(content, source, isfile) ==
    /\ \A i \in DOMAIN content : ~IsH1Line(content[i]) /\ ~IsUnderlined(content, i)
    /\ ~isfile
    /\ StartsWithHttp(source)
    /\ ~urlparse(source).ok

\* _load_content: loaded is FALSE for None (the read or the GET failed, or the
\* source is neither a file nor an http(s) URL).
MarkdownLoadContent(source, env) ==
    IF env.isfile \/ StartsWithHttp(source)
    THEN [loaded |-> env.load = "ok", text |-> env.text]
    ELSE [loaded |-> FALSE, text |-> <<>>]

\* extract with the minimum content length of the other extractors applied.
MarkdownExtract_rejecting_short(source, env) ==
    LET got == MarkdownLoadContent(source, env)
        content == got.text
    IN  IF ~got.loaded \/ TextLen(content) < 100 THEN Return(<<>>)
        ELSE IF MarkdownTitleRaises(content, source, env.isfile)
             THEN Return(<<>>)
        ELSE LET title == MarkdownExtractTitle(content, source, env.isfile)
             IN  Return(<< ContentItem(generate_unique_id(title), title, content,
                                       IF StartsWithHttp(source) THEN source ELSE None,
                                       "documentation") >>)

MarkdownExtract(source, env) ==
    LET got == MarkdownLoadContent(source, env)
        content == got.text
    IN  IF ~got.loaded \/ content = <<>> THEN Return(<<>>)
        ELSE IF MarkdownTitleRaises(content, source, env.isfile)
             THEN Return(<<>>)  \* except Exception: return []
        ELSE LET title == MarkdownExtractTitle(content, source, env.isfile)
             IN  Return(<< ContentItem(generate_unique_id(title), title, content,
                                       IF StartsWithHttp(source) THEN source ELSE None,
                                       "documentation") >>)

----------------------------------------------------------------------------
(* GenericBlogExtractor.  env.page is the fetched page as BeautifulSoup sees *)
(* it: title (soup.title.string, None without a <title> string), h1 and      *)
(* header_h (the text of the first <h1>, and of the first h1/h2 inside a     *)
(* <header>, None when absent); env.markdown is what html2text makes of the  *)
(* main content.                                                             *)

SeparatorToks == {"|", "-"}

\* re.sub(r'\s*[|–-].*$', '', title): the title up to its first separator.
CutAtSeparator(title) ==
    RStrip(SubSeq(title, 1, IndexOfFirst(title, SeparatorToks) - 1))

BlogExtractTitle(page) ==
    IF page.title # None /\ page.title # <<>> THEN CutAtSeparator(Strip(page.title))
    ELSE IF page.h1 # None THEN Strip(page.h1)
    ELSE IF page.header_h # None THEN Strip(page.header_h)
    ELSE <<>>

BlogProcessPage(url, env) ==
    IF env.convert # "ok" THEN Return(<<>>)   \* except Exception: return []
    ELSE LET extracted == BlogExtractTitle(env.page)
             title == IF extracted = <<>> THEN <<"Untitled Article">> ELSE extracted
         IN  Return(<< ContentItem(uuid5(url \o title), title, env.markdown, url, "article") >>)

BlogExtract(url, env) ==
    IF env.fetch # "ok" \/ env.html_empty THEN Return(<<>>)
    ELSE BlogProcessPage(url, env)

----------------------------------------------------------------------------
(* GitHubExtractor *)

RECURSIVE SplitFrom(_, _, _)
\* The "/"-separated parts of a stripped path, from token i, given the parts so far.
SplitFrom(path, i, parts) ==
    IF i > Len(path) THEN parts
    ELSE LET t == path[i]
             n == Len(parts)
         IN  IF t \in SlashToks /\ i > 1
             THEN SplitFrom(path, i + 1, Append(parts, SegmentName(t)))
             ELSE SplitFrom(path, i + 1,
                            [parts EXCEPT ![n] = @ \o (IF t \in SlashToks THEN SegmentName(t) ELSE <<t>>)])

\* path.strip("/").split("/")
PathSplit(path) == SplitFrom(StripSlashes(path), 1, << <<>> >>)

\* _extract_title_from_content: the first line (stripped) that starts with "# "
\* gives its text; an earlier line that is not empty, does not start with "#"
\* and is shorter than 100 characters is returned whole; else None.
RECURSIVE GitHubTitleFrom(_, _)
GitHubTitleFrom(content, i) ==
    IF i > Len(content) THEN None
    ELSE LET line == Strip(content[i])
         IN  IF Len(line) >= 2 /\ line[1] = "#" /\ line[2] = " "
             THEN Strip(SubSeq(line, 3, Len(line)))
             ELSE IF line # <<>> /\ Head(line) \notin {"#", "##"} /\ StrLen(line) < 100
             THEN line
             ELSE GitHubTitleFrom(content, i + 1)

GitHubExtractTitleFromContent(content) == GitHubTitleFrom(content, 1)

\* x or default, for an optional title
OrDefault(x, default) == IF x = None \/ x = <<>> THEN default ELSE x

\* _extract_readme: [] on a 404, on a request error and on a malformed answer.
GitHubExtractReadme(owner, repo, readme) ==
    IF readme.status # "ok" THEN <<>>
    ELSE << ContentItem(generate_unique_id(owner \o <<"/">> \o repo \o <<"/README">>),
                        OrDefault(GitHubExtractTitleFromContent(readme.text), repo \o <<" README">>),
                        readme.text,
                        <<"https://", "github.com", "/">> \o owner \o <<"/">> \o repo,
                        "documentation") >>

\* item["name"].endswith(ext) for an ext of file_extensions
file_extensions == {".md", ".markdown", ".txt", ".rst"}

max_files == 2

RECURSIVE GitHubDirFiles(_, _, _, _, _, _)
\* The file loop of _extract_docs over one directory listing, from entry i: items
\* with the records of this directory appended.  An exception in the loop ends
\* the directory and keeps what was appended.
GitHubDirFiles(owner, repo, contents, i, file_count, acc) ==
    IF i > Len(contents) THEN acc
    ELSE LET item == contents[i]
         IN  IF item.type # "file" \/ Last(item.name) \notin file_extensions
             THEN GitHubDirFiles(owner, repo, contents, i + 1, file_count, acc)
             ELSE IF file_count >= max_files THEN acc
             ELSE IF item.fetch # "ok" THEN acc   \* the exception ends this directory
             ELSE IF ~item.base64 \/ item.text = <<>> \/ ~item.decodable
             THEN GitHubDirFiles(owner, repo, contents, i + 1, file_count, acc)
             ELSE GitHubDirFiles(owner, repo, contents, i + 1, file_count + 1,
                    Append(acc,
                      ContentItem(generate_unique_id(owner \o <<"/">> \o repo \o <<"/">> \o item.name),
                                  OrDefault(GitHubExtractTitleFromContent(item.text),
                                            repo \o <<" - ">> \o item.name),
                                  item.text,
                                  item.html_url,
                                  "documentation")))

doc_dirs == <<"docs", "documentation", "doc">>

RECURSIVE GitHubDocsFrom_stops_at_failure(_, _, _, _, _)
\* The loop over doc_dirs with the request failure of a directory caught
\* outside the loop: the directories after it are not read.
GitHubDocsFrom_stops_at_failure(owner, repo, dirs, d, acc) ==
    IF d > Len(doc_dirs) THEN acc
    ELSE IF dirs[d].status = "error" THEN acc
    ELSE IF dirs[d].status # "ok"
    THEN GitHubDocsFrom_stops_at_failure(owner, repo, dirs, d + 1, acc)
    ELSE GitHubDocsFrom_stops_at_failure(owner, repo, dirs, d + 1,
                        GitHubDirFiles(owner, repo, dirs[d].contents, 1, 0, acc))

RECURSIVE GitHubDocsFrom(_, _, _, _, _)
GitHubDocsFrom(owner, repo, dirs, d, acc) ==
    IF d > Len(doc_dirs) THEN acc
    ELSE IF dirs[d].status # "ok" THEN GitHubDocsFrom(owner, repo, dirs, d + 1, acc)
    ELSE GitHubDocsFrom(owner, repo, dirs, d + 1,
                        GitHubDirFiles(owner, repo, dirs[d].contents, 1, 0, acc))

\* _extract_docs
GitHubExtractDocs(owner, repo, dirs) == GitHubDocsFrom(owner, repo, dirs, 1, <<>>)

GitHubExtract(url, env) ==
    IF ~urlparse(url).ok THEN Return(<<>>)   \* except Exception: return []
    ELSE LET path_parts == PathSplit(urlparse(url).path)
         IN  IF Len(path_parts) < 2 THEN Return(<<>>)
             ELSE Return(GitHubExtractReadme(path_parts[1], path_parts[2], env.readme)
                         \o GitHubExtractDocs(path_parts[1], path_parts[2], env.dirs))

----------------------------------------------------------------------------
(* PDFExtractor.  env.file is the file at pdf_path (the local path, or the   *)
(* download): size_ok (at least 100 bytes), magic (its bytes start with      *)
(* %PDF-), reader ("ok", or "error" when PyPDF2.PdfReader raises), pages     *)
(* (the text of each page) and meta_title (None without one).                *)

IsDrive(source) == Contains(Lower(source), "drive.google.com")

\* _extract_google_drive_file_id finds an id: /file/d/ID, [?&]id=ID or /document/d/ID.
HasGoogleDriveFileId(url) ==
    \/ \E i \in DOMAIN url :
          /\ url[i] \in {"/file", "/document"}
          /\ i + 2 <= Len(url)
          /\ url[i + 1] = "/d"
          /\ url[i + 2] \in {"/1AbC"}
    \/ \E i \in DOMAIN url : url[i] = "?id=1AbC"

\* _is_valid_pdf
IsValidPdf(file) ==
    /\ file.size_ok
    /\ file.magic
    /\ (file.reader = "error" \/ Len(file.pages) > 0)

\* _download_from_google_drive: TRUE when it returns a path, FALSE for None.
DownloadFromGoogleDrive(url, env) ==
    /\ HasGoogleDriveFileId(url)
    /\ env.download = "ok"
    /\ IsValidPdf(env.file)

RECURSIVE Flatten(_)
\* The string of a text: its lines joined by "\n".
Flatten(text) ==
    IF text = <<>> THEN <<>>
    ELSE IF Len(text) = 1 THEN Head(text)
    ELSE Head(text) \o <<"\n">> \o Flatten(Tail(text))

RECURSIVE FullText(_)
\* full_text: the text of every page, each followed by "\n\n".
FullText(pages) ==
    IF pages = <<>> THEN <<>>
    ELSE Flatten(Head(pages)) \o <<"\n\n">> \o FullText(Tail(pages))

\* The chapter headings of the text alphabet: "Chapter" or "CHAPTER", blanks, a
\* number (digits or I, V, X) and a colon.
DigitHeadings == {"Chapter 1:", "Chapter 2:"}
RomanHeadings == {"Chapter IV:"}

\* The headings of a configured pattern of the same shape for "Section".
SectionHeadings == {"Section 1:", "Section 2:"}

\* self.chapter_patterns by default: the one pattern for "Chapter".  A pattern
\* is named by its keyword K and stands for
\* (?:K)\s+(\d+|[IVX]+)[:\s]+(.+?)(?=(?:K)\s+\d+|$).
chapter_patterns == <<"Chapter">>

\* The headings a match of the pattern can start at, and those its lookahead
\* stops before (numbers in digits only).
StartHeadings(pattern) ==
    IF pattern = "Chapter" THEN DigitHeadings \cup RomanHeadings ELSE SectionHeadings

StopHeadings(pattern) ==
    IF pattern = "Chapter" THEN DigitHeadings ELSE SectionHeadings

\* match.group(1) of a heading
HeadingNumber(t) ==
    CASE t = "Chapter 1:" -> "1"
      [] t = "Chapter 2:" -> "2"
      [] t = "Chapter IV:" -> "IV"
      [] t = "Section 1:" -> "1"
      [] t = "Section 2:" -> "2"

RECURSIVE ChapterMatches(_, _, _)
\* finditer of a chapter pattern from token i on: each match starts at a
\* heading with at least one character after it and runs lazily up to the
\* next heading with a digit number that leaves it a character, else to the end.
ChapterMatches(pattern, text, i) ==
    LET heads == {h \in i..(Len(text) - 1) : text[h] \in StartHeadings(pattern)}
    IN  IF heads = {} THEN <<>>
        ELSE LET start == CHOOSE h \in heads : \A g \in heads : h <= g
                 nexts == {h \in (start + 2)..Len(text) : text[h] \in StopHeadings(pattern)}
                 stop == IF nexts = {} THEN Len(text) + 1
                         ELSE CHOOSE h \in nexts : \A g \in nexts : h <= g
             IN  << [start |-> start, stop |-> stop] >> \o ChapterMatches(pattern, text, stop)

\* The (chapter_title, chapter_content) of every match of one pattern.  The
\* content is text[match.end():next.start()], which is empty because each
\* match ends where the next begins.
ChaptersOf(pattern, text) ==
    LET matches == ChapterMatches(pattern, text, 1)
    IN  [k \in DOMAIN matches |->
            [ title |-> <<"Chapter ", HeadingNumber(text[matches[k].start]), ": ">>
                          \o Strip(SubSeq(text, matches[k].start + 1, matches[k].stop - 1)),
              content |-> <<>> ]]

RECURSIVE IdentifyChaptersFrom(_, _, _)
\* The loop of _identify_chapters from pattern p on: the chapters of the first
\* pattern that matches.
IdentifyChaptersFrom(patterns, text, p) ==
    IF p > Len(patterns) THEN <<>>
    ELSE IF ChapterMatches(patterns[p], text, 1) # <<>> THEN ChaptersOf(patterns[p], text)
    ELSE IdentifyChaptersFrom(patterns, text, p + 1)

\* _identify_chapters
IdentifyChapters(patterns, text) == IdentifyChaptersFrom(patterns, text, 1)

\* _extract_pdf_title: the metadata title, else the first line of page 1 that
\* is not blank and is shorter than 100 characters (stripped), else None.
ExtractPdfTitle(file) ==
    IF file.meta_title # None /\ file.meta_title # <<>> THEN file.meta_title
    ELSE IF file.pages = <<>> THEN None
    ELSE LET page == Head(file.pages)
             good == {i \in DOMAIN page : Strip(page[i]) # <<>> /\ StrLen(Strip(page[i])) < 100}
         IN  IF good = {} THEN None
             ELSE Strip(page[CHOOSE i \in good : \A j \in good : i <= j])

\* self.max_chapters by default: no limit.
max_chapters == 0

\* The chapter loop with every chapter keyed by the source alone.
ChapterItems_without_index(chapters, title, source_url, cap) ==
    LET n == IF cap > 0 /\ cap < Len(chapters) THEN cap ELSE Len(chapters)
    IN  [k \in 1..n |->
            ContentItem(uuid5(source_url),
                        title \o <<" - ">> \o chapters[k].title,
                        IF chapters[k].content = <<>> THEN <<>> ELSE <<chapters[k].content>>,
                        source_url, "book_chapter")]

\* The records of the chapters, up to cap (self.max_chapters) when it is positive.
ChapterItems(chapters, title, source_url, cap) ==
    LET n == IF cap > 0 /\ cap < Len(chapters) THEN cap ELSE Len(chapters)
    IN  [k \in 1..n |->
            ContentItem(uuid5(source_url \o <<"#", ToString(k - 1)>>),
                        title \o <<" - ">> \o chapters[k].title,
                        IF chapters[k].content = <<>> THEN <<>> ELSE <<chapters[k].content>>,
                        source_url, "book_chapter")]

\* _extract_from_pdf with the ids made of pdf_path in place of source_url.
ExtractFromPdf_id_of_path(basename, source_url, file, config) ==
    IF file.reader # "ok" THEN <<>>
    ELSE LET full_text == FullText(file.pages)
             title == OrDefault(ExtractPdfTitle(file), basename)
             chapters == IdentifyChapters(config.patterns, full_text)
         IN  IF chapters # <<>> THEN ChapterItems(chapters, title, basename, config.max_chapters)
             ELSE << ContentItem(uuid5(basename), title,
                                 IF Strip(full_text) = <<>> THEN <<>> ELSE <<Strip(full_text)>>,
                                 source_url, "book_chapter") >>

\* _extract_from_pdf(pdf_path, source_url), config holding self.chapter_patterns
\* (patterns) and self.max_chapters.
ExtractFromPdf(basename, source_url, file, config) ==
    IF file.reader # "ok" THEN <<>>   \* except Exception: return []
    ELSE LET full_text == FullText(file.pages)
             title == OrDefault(ExtractPdfTitle(file), basename)
             chapters == IdentifyChapters(config.patterns, full_text)
         IN  IF chapters # <<>> THEN ChapterItems(chapters, title, source_url, config.max_chapters)
             ELSE << ContentItem(uuid5(source_url), title,
                                 IF Strip(full_text) = <<>> THEN <<>> ELSE <<Strip(full_text)>>,
                                 source_url, "book_chapter") >>

\* os.path.basename(path)
Basename(path) == LastComponent(path)

\* extract with the Google Drive download left unguarded: a failed download
\* leaves extract as an exception.
PDFExtract_download_unguarded(source, env) ==
    IF IsDrive(source)
    THEN IF HasGoogleDriveFileId(source) /\ env.download # "ok" THEN Raise
         ELSE IF ~DownloadFromGoogleDrive(source, env) THEN Return(<<>>)
         ELSE Return(ExtractFromPdf(<<"gdrive_pdf_", env.tmpname, ".pdf">>, source, env.file, env.config))
    ELSE IF ~env.exists THEN Return(<<>>)
    ELSE Return(ExtractFromPdf(Basename(source), source, env.file, env.config))

PDFExtract(source, env) ==
    IF IsDrive(source)
    THEN IF ~DownloadFromGoogleDrive(source, env) THEN Return(<<>>)
         ELSE Return(ExtractFromPdf(<<"gdrive_pdf_", env.tmpname, ".pdf">>, source, env.file, env.config))
    ELSE IF ~env.exists THEN Return(<<>>)
    ELSE Return(ExtractFromPdf(Basename(source), source, env.file, env.config))

\* The stages a call of PDFExtractor.extract enters, in order: "download"
\* (gdown), "validate" (_is_valid_pdf reads the magic number) and
\* "extract_text" (_extract_from_pdf).
PDFStages(source, env) ==
    IF IsDrive(source)
    THEN IF ~HasGoogleDriveFileId(source) THEN <<>>
         ELSE IF env.download # "ok" THEN <<"download">>
         ELSE IF ~IsValidPdf(env.file) THEN <<"download", "validate">>
         ELSE <<"download", "validate", "extract_text">>
    ELSE IF ~env.exists THEN <<>>
    ELSE <<"extract_text">>

----------------------------------------------------------------------------
(* SubstackExtractor.  env.links are the hrefs with "/p/" of the listing     *)
(* page, env.posts[link] is what fetching a post gives: its <title> string   *)
(* (None without one), the length of its main-content HTML, its markdown     *)
(* and its author.                                                           *)

\* Substack's own thresholds on the main-content HTML and on the markdown.
MinContentLength == 100

RECURSIVE Unique(_)
\* Remove duplicates while preserving order.
Unique(links) ==
    IF links = <<>> THEN <<>>
    ELSE LET front == Unique(SubSeq(links, 1, Len(links) - 1))
         IN  IF \E i \in DOMAIN front : front[i] = Last(links)
             THEN front ELSE Append(front, Last(links))

\* utils.extract_title(html): raises AttributeError when the <title> has no
\* string; cuts the title at its first "|".
PostTitleRaises(post) == post.has_title_tag /\ post.title = None

PostTitle(post) ==
    IF post.has_title_tag
    THEN RStrip(SubSeq(Strip(post.title), 1, IndexOfFirst(Strip(post.title), {"|"}) - 1))
    ELSE IF post.h1 # None THEN Strip(post.h1)
    ELSE <<>>

\* _process_post calls generate_unique_id() without the text it requires:
\* Python raises TypeError, which the except clause turns into [].
GenerateUniqueIdWithoutText == "TypeError"

SubstackProcessPost(url, post) ==
    IF post.fetch # "ok" THEN <<>>
    ELSE IF PostTitleRaises(post) THEN <<>>
    ELSE IF post.html_len < MinContentLength THEN <<>>
    ELSE IF TextLen(post.markdown) < MinContentLength THEN <<>>
    ELSE IF GenerateUniqueIdWithoutText = "TypeError" THEN <<>>
    ELSE << ContentItem(GenerateUniqueIdWithoutText,
                        OrDefault(PostTitle(post), <<"Untitled Post">>),
                        post.markdown, url, "newsletter") >>

RECURSIVE SubstackPostsFrom(_, _, _, _)
\* The loop over post_links: the posts whose author is empty or the main author.
SubstackPostsFrom(links, posts, main_author, acc) ==
    IF links = <<>> THEN acc
    ELSE LET got == SubstackProcessPost(Head(links), posts[Head(links)])
             kept == IF got # <<>> /\ main_author # None /\ main_author # <<>>
                        /\ posts[Head(links)].author \notin {None, <<>>, main_author}
                     THEN <<>> ELSE got
         IN  SubstackPostsFrom(Tail(links), posts, main_author, acc \o kept)

SubstackExtract(url, env) ==
    IF env.fetch # "ok" \/ env.html_empty THEN Return(<<>>)
    ELSE IF env.archive_fetch # "ok" \/ Unique(env.links) = <<>> THEN Return(<<>>)
    ELSE Return(SubstackPostsFrom(Unique(env.links), env.posts, env.main_author, <<>>))

----------------------------------------------------------------------------
(* extract of an extractor of the given kind *)

Extract(kind, source, env) ==
    CASE kind = "GenericBlogExtractor" -> BlogExtract(source, env)
      [] kind = "GitHubExtractor" -> GitHubExtract(source, env)
      [] kind = "MarkdownExtractor" -> MarkdownExtract(source, env)
      [] kind = "PDFExtractor" -> PDFExtract(source, env)
      [] kind = "SubstackExtractor" -> SubstackExtract(source, env)

----------------------------------------------------------------------------
(* The inputs of the model *)

\* Every source made of a scheme, a host or file name, a path, a suffix, a
\* query string and a fragment, each of which may be absent.
SchemeParts == {<<>>, <<"http://">>, <<"https://">>, <<"ftp://">>}
HostParts == {<<>>, <<"example.com">>, <<"github.com">>, <<"www.github.com">>, <<"GitHub.com">>,
              <<"news.substack.com">>, <<"drive.google.com">>, <<"[::1">>, <<"notes">>}
PathChoices == {<<>>, <<"/owner">>, <<"/owner", "/repo">>, <<"/owner", "/">>}
SuffixParts == {<<>>, <<".md">>, <<".MD">>, <<".pdf">>}
QueryParts == {<<>>, <<"?raw=1">>, <<"?ref=github.com">>}
FragmentParts == {<<>>, <<"#intro">>}

AllSources ==
    {sc \o h \o p \o sf \o q \o f :
        sc \in SchemeParts, h \in HostParts, p \in PathChoices,
        sf \in SuffixParts, q \in QueryParts, f \in FragmentParts}

----------------------------------------------------------------------------
(* Probing can_handle: the loop of test_can_handle_logic and test_edge_cases, *)
(* run on one source string while the environment around it changes.         *)

Ask(source, isfile, net) ==
    [ isfile |-> isfile, net |-> net,
      by |-> [k \in Kinds |-> can_handle(k, source, isfile)] ]

InitMatch ==
    /\ probe \in [source : AllSources, isfile : BOOLEAN, net : BOOLEAN]
    /\ answers = <<>>
    /\ extractors = <<>>
    /\ items = <<>>
    /\ returned = <<>>
    /\ last = [made |-> FALSE, empties |-> {}]
    /\ startup = <<>>
    /\ run = [phase |-> "none"]

\* for ext in extractors: ext.can_handle(source); the last two probes are kept.
Probe ==
    /\ answers' = (IF Len(answers) < 2 THEN answers ELSE Tail(answers))
                     \o <<Ask(probe.source, probe.isfile, probe.net)>>
    /\ UNCHANGED <<probe, extractors, items, returned, last, startup, run>>

\* A file is created or deleted at the path the source names.
FileChanges ==
    /\ probe' = [probe EXCEPT !.isfile = ~@]
    /\ UNCHANGED <<answers, extractors, items, returned, last, startup, run>>

\* The network goes down or comes back.
NetworkChanges ==
    /\ probe' = [probe EXCEPT !.net = ~@]
    /\ UNCHANGED <<answers, extractors, items, returned, last, startup, run>>

NextMatch == Probe \/ FileChanges \/ NetworkChanges

SpecMatch == InitMatch /\ [][NextMatch]_vars

(* C6: whenever GenericBlogExtractor.can_handle accepts a source, no can_handle
   of GitHubExtractor, MarkdownExtractor, PDFExtractor or SubstackExtractor
   accepts it: the generic matcher overlaps no specific matcher. *)
C6_BlogOverlapsNoSpecificMatcher ==
    \A i \in DOMAIN answers :
        answers[i].by["GenericBlogExtractor"] = "True"
            => \A k \in Kinds \ {"GenericBlogExtractor"} : answers[i].by[k] # "True"

(* C8: for each extractor can_handle(source) is a function of the source
   string alone: two probes of the same source string give the same answers
   for every extractor, whatever the environment (file present or not, network
   up or down) of each probe. *)
C8_AnswerDependsOnStringAlone ==
    Len(answers) = 2 => answers[1].by = answers[2].by

----------------------------------------------------------------------------
(* The environments of an extract call: what the file system, the network   *)
(* and the parsers answer.                                                   *)

\* Markdown texts: a heading and a short body (37 characters), a heading of
\* blanks, a heading and a long body, no heading, an underlined title, nothing.
MarkdownTexts ==
    { << <<"#", " ", "Test Document">>, <<"This is test content.">> >>,
      << <<"#", " ", " ">>, <<"body">> >>,
      << <<"#", " ", "Guide">>, <<Pad(100)>> >>,
      << <<"plain text">> >>,
      << <<"Title">>, <<"===">> >>,
      <<>> }

MarkdownEnvs == [isfile : BOOLEAN, load : {"ok", "error"}, text : MarkdownTexts]

BlogPages ==
    [ title : {None, <<" ">>, <<"Post", " ", "|", " ", "Site">>},
      h1 : {None, <<"Heading">>},
      header_h : {None, <<"Head">>} ]

\* What makes the fetched page a listing page or not: the number of its
\* article-card elements, the number of its list-page links, and its
\* same-domain article links.
BlogListings ==
    { [article_count |-> 0, link_count |-> 0, links |-> <<>>],
      [article_count |-> 4, link_count |-> 2, links |-> <<"/post/a", "/post/b">>] }

BlogEnvs ==
    [ fetch : {"ok", "error"}, html_empty : BOOLEAN, convert : {"ok", "error"},
      page : BlogPages, markdown : {<<>>, << <<"short">> >>, << <<Pad(100)>> >>},
      listing : BlogListings ]

\* Entries of a directory listing of the GitHub contents API.
DocFile(name, fetch, text) ==
    [ type |-> "file", name |-> name, fetch |-> fetch, base64 |-> TRUE, decodable |-> TRUE,
      text |-> text, html_url |-> <<"https://", "github.com", "/blob/">> \o name ]

GuideFile == DocFile(<<"guide", ".md">>, "ok", << <<"#", " ", "Guide">>, <<Pad(100)>> >>)
OtherGuideFile ==
    [ DocFile(<<"guide", ".md">>, "ok", << <<"#", " ", "Other Guide">> >>)
        EXCEPT !.html_url = <<"https://", "github.com", "/blob/", "documentation/", "guide", ".md">> ]
NotesFile == DocFile(<<"notes", ".txt">>, "ok", << <<"##">>, <<"x">> >>)
ApiFile == DocFile(<<"api", ".rst">>, "ok", << <<"#", " ", "API">> >>)
IntroFile == DocFile(<<"intro", ".md">>, "ok", << <<"Some words first">>, <<"#", " ", "Intro">> >>)
BrokenFile == DocFile(<<"broken", ".md">>, "error", <<>>)
BinaryFile == [DocFile(<<"raw", ".md">>, "ok", << <<"?">> >>) EXCEPT !.decodable = FALSE]
EmptyFile == DocFile(<<"empty", ".md">>, "ok", <<>>)
ImageFile == DocFile(<<"logo", ".png">>, "ok", <<>>)
SubDir == [DocFile(<<"img">>, "ok", <<>>) EXCEPT !.type = "dir"]

Missing == [status |-> "404", contents |-> <<>>]
Listing(contents) == [status |-> "ok", contents |-> contents]

\* The answers for docs, documentation and doc.
GitHubDirs ==
    { <<Missing, Missing, Missing>>,
      <<[status |-> "error", contents |-> <<>>], Missing, Listing(<<ApiFile>>)>>,
      <<Listing(<<SubDir, ImageFile, GuideFile>>), Missing, Missing>>,
      <<Listing(<<GuideFile, BrokenFile, NotesFile>>), Missing, Missing>>,
      <<Listing(<<BinaryFile, EmptyFile, NotesFile, GuideFile, ApiFile>>), Missing, Missing>>,
      <<Listing(<<GuideFile, NotesFile>>), Missing, Listing(<<ApiFile>>)>>,
      <<Listing(<<GuideFile>>), Listing(<<OtherGuideFile>>), Missing>>,
      <<Missing, Listing(<<IntroFile>>), Missing>> }

GitHubEnvs ==
    [ readme : [ status : {"ok", "404", "error"},
                 text : { << <<"#", " ", "Project">>, <<Pad(100)>> >>, << <<"##">> >>, <<>> } ],
      dirs : GitHubDirs ]

\* The text of the pages of a PDF, as PyPDF2 extracts it.
PdfPages ==
    { <<>>,
      << <<>> >>,
      << << <<"My Book">>, <<"short text">> >> >>,
      << << <<Pad(100)>>, <<"more">> >>, << <<"page two">> >> >>,
      << << <<"Chapter 1:", " ", "Intro">>, <<"Chapter 2:", " ", "More">> >> >>,
      << << <<"Section 1:", " ", "Scope">>, <<"Chapter 1:", " ", "Intro">>,
            <<"Section 2:", " ", "Terms">> >> >> }

PdfFiles ==
    [ size_ok : BOOLEAN, magic : BOOLEAN, reader : {"ok", "error"},
      pages : PdfPages, meta_title : {None, <<"Meta Title">>} ]

\* The configuration of the PDF extractor: the default, a limit of one
\* chapter, and a "Section" pattern ahead of the default one.
PdfConfigs ==
    { [patterns |-> chapter_patterns, max_chapters |-> max_chapters],
      [patterns |-> chapter_patterns, max_chapters |-> 1],
      [patterns |-> <<"Section">> \o chapter_patterns, max_chapters |-> max_chapters] }

PDFEnvs ==
    [ exists : BOOLEAN, download : {"ok", "error"}, tmpname : {"tmp1"}, file : PdfFiles,
      config : PdfConfigs ]

PostLinks == {"/p/a", "/p/b"}

Posts ==
    { [ fetch |-> "error", has_title_tag |-> FALSE, title |-> None, h1 |-> None,
        html_len |-> 0, markdown |-> <<>>, author |-> None ],
      [ fetch |-> "ok", has_title_tag |-> TRUE, title |-> None, h1 |-> <<"Post">>,
        html_len |-> 200, markdown |-> << <<Pad(100)>> >>, author |-> <<"Ann">> ],
      [ fetch |-> "ok", has_title_tag |-> TRUE, title |-> <<"Post", " ", "|", " ", "News">>,
        h1 |-> None, html_len |-> 200, markdown |-> << <<"short">> >>, author |-> <<"Ann">> ],
      [ fetch |-> "ok", has_title_tag |-> TRUE, title |-> <<"Post", " ", "|", " ", "News">>,
        h1 |-> None, html_len |-> 200, markdown |-> << <<Pad(100)>> >>, author |-> <<"Bob">> ],
      [ fetch |-> "ok", has_title_tag |-> TRUE, title |-> <<"Letter", " ", "|", " ", "News">>,
        h1 |-> None, html_len |-> 200, markdown |-> << <<Pad(100)>> >>, author |-> <<"Ann">> ] }

SubstackEnvs ==
    [ fetch : {"ok", "error"}, html_empty : BOOLEAN, archive_fetch : {"ok", "error"},
      links : {<<>>, <<"/p/a">>, <<"/p/a", "/p/b", "/p/a">>},
      posts : [PostLinks -> Posts], main_author : {None, <<"Ann">>} ]

EnvsOf(kind) ==
    CASE kind = "GenericBlogExtractor" -> BlogEnvs
      [] kind = "GitHubExtractor" -> GitHubEnvs
      [] kind = "MarkdownExtractor" -> MarkdownEnvs
      [] kind = "PDFExtractor" -> PDFEnvs
      [] kind = "SubstackExtractor" -> SubstackEnvs

\* requests.get answers only for a well-formed http(s) URL.
Fetchable(source) == StartsWithHttp(source) /\ urlparse(source).ok

\* The environments a source can meet: a request for something that is no
\* well-formed http(s) URL fails.  A source that starts with http:// can name
\* a local file: it is a relative path.
Feasible(kind, source, env) ==
    CASE kind = "GenericBlogExtractor" -> env.fetch = "ok" => Fetchable(source)
      [] kind = "GitHubExtractor" -> TRUE
      [] kind = "MarkdownExtractor" ->
            (~env.isfile /\ env.load = "ok") => Fetchable(source)
      [] kind = "PDFExtractor" -> TRUE
      [] kind = "SubstackExtractor" ->
            /\ env.fetch = "ok" => Fetchable(source)
            /\ env.archive_fetch = "ok" => Fetchable(source)

\* The sources handed to extract.
ExtractSources ==
    { <<"notes", ".md">>, <<"/owner", "/file", ".pdf">>, <<"https://", "example.com", "/owner">>,
      <<"https://", "example.com", "/owner", ".md">>, <<"https://", "github.com", "/owner", "/repo">>,
      <<"https://", "github.com", "/owner">>, <<"https://", "news.substack.com">>,
      <<"https://", "drive.google.com", "/file", "/d", "/1AbC">>,
      <<"https://", "drive.google.com", "/owner">>, <<"https://", "[::1", "/owner">> }

----------------------------------------------------------------------------
(* SpecExtract: one extract call of one extractor, on any source and in any *)
(* environment.                                                              *)

InitExtract ==
    /\ \E kind \in Kinds : \E source \in ExtractSources : \E env \in EnvsOf(kind) :
          /\ Feasible(kind, source, env)
          /\ run = [phase |-> "called", kind |-> kind, source |-> source, env |-> env]
    /\ probe = [source |-> <<>>, isfile |-> FALSE, net |-> FALSE]
    /\ answers = <<>>
    /\ extractors = <<>>
    /\ items = <<>>
    /\ returned = <<>>
    /\ last = [made |-> FALSE, empties |-> {}]
    /\ startup = <<>>

\* The stages of the call that the claims about ordering speak of.
Stages(kind, source, env) ==
    IF kind = "PDFExtractor" THEN PDFStages(source, env) ELSE <<>>

RunExtract ==
    /\ run.phase = "called"
    /\ run' = [ phase |-> "done", kind |-> run.kind, source |-> run.source, env |-> run.env,
                out |-> Extract(run.kind, run.source, run.env),
                stages |-> Stages(run.kind, run.source, run.env) ]
    /\ UNCHANGED <<probe, answers, extractors, items, returned, last, startup>>

\* The names uuid.uuid4().hex[:8] can give the temporary file of a download.
TmpNames == {"tmp1", "tmp2"}

\* The environment at a later call: what is fetched is the same, the name of
\* the temporary file is drawn again.
Later(kind, env, tmp) ==
    IF kind = "PDFExtractor" THEN [env EXCEPT !.tmpname = tmp] ELSE env

\* A second extract call of the same extractor object, on the same source or
\* on another one.
ExtractAgain ==
    /\ run.phase = "done"
    /\ \E source \in ExtractSources : \E tmp \in TmpNames :
          /\ Feasible(run.kind, source, run.env)
          /\ run' = [ phase |-> "again", kind |-> run.kind, source |-> run.source,
                      env |-> run.env, out |-> run.out, stages |-> run.stages,
                      source2 |-> source, env2 |-> Later(run.kind, run.env, tmp),
                      out2 |-> Extract(run.kind, source, Later(run.kind, run.env, tmp)) ]
    /\ UNCHANGED <<probe, answers, extractors, items, returned, last, startup>>

NextExtract == RunExtract \/ ExtractAgain

SpecExtract == InitExtract /\ [][NextExtract]_vars

----------------------------------------------------------------------------
(* ExtractorManager: the list of extractors and the accumulator items.      *)
(* returned is the concatenation of what the extract calls handed back      *)
(* since the caller last reassigned items; last describes the latest        *)
(* extract call as its caller saw it.                                        *)

MaxExtractors == 2
MaxItems == 2

\* ExtractorManager.register_extractor
register_extractor(list, kind) == Append(list, kind)

\* self.items = items, in place of extend.
extend_replacing(list, new) == new

\* self.items.extend(items)
extend(list, new) == list \o new

RECURSIVE Scan(_, _, _, _)
\* The loop of ExtractorManager.extract from extractor i on: it stops at the
\* first extractor whose can_handle answers True ("selected"), at the first
\* whose can_handle raises ("raised"), or after the last one ("none").
Scan(list, source, isfile, i) ==
    IF i > Len(list) THEN [stop |-> "none", at |-> 0]
    ELSE LET answer == can_handle(list[i], source, isfile)
         IN  IF answer = "ValueError" THEN [stop |-> "raised", at |-> i]
             ELSE IF answer = "True" THEN [stop |-> "selected", at |-> i]
             ELSE Scan(list, source, isfile, i + 1)

\* The sources handed to the manager: a GitHub URL of a markdown file, a blog
\* page, a URL with an unbalanced bracket, a local markdown file, a Substack
\* URL of a PDF.
DispatchSources ==
    { <<"https://", "github.com", "/owner", "/repo", ".md">>,
      <<"https://", "example.com", "/owner">>,
      <<"https://", "[::1", "/owner">>,
      <<"notes", ".md">>,
      <<"https://", "news.substack.com", "/owner", ".pdf">> }

\* The environments of a dispatched call.  For PDFExtractor: whether something
\* exists at the path, and whether the reader can read it.
DispatchEnvs(kind) ==
    CASE kind = "GenericBlogExtractor" ->
            { [ fetch |-> f, html_empty |-> FALSE, convert |-> "ok",
                page |-> [title |-> <<"Post", " ", "|", " ", "Site">>, h1 |-> None, header_h |-> None],
                markdown |-> << <<"short">> >>,
                listing |-> [article_count |-> 0, link_count |-> 0, links |-> <<>>] ] :
              f \in {"ok", "error"} }
      [] kind = "GitHubExtractor" ->
            { [ readme |-> [status |-> st, text |-> << <<"#", " ", "Project">>, <<Pad(100)>> >>],
                dirs |-> <<Missing, Missing, Missing>> ] : st \in {"ok", "error"} }
      [] kind = "MarkdownExtractor" ->
            { [ isfile |-> f, load |-> l,
                text |-> << <<"#", " ", "Test Document">>, <<"This is test content.">> >> ] :
              f \in BOOLEAN, l \in {"ok", "error"} }
      [] kind = "PDFExtractor" ->
            { [ exists |-> e, download |-> "error", tmpname |-> "tmp1",
                file |-> [ size_ok |-> TRUE, magic |-> TRUE, reader |-> r, pages |-> <<>>,
                           meta_title |-> None ],
                config |-> [patterns |-> chapter_patterns, max_chapters |-> max_chapters] ] :
              e \in BOOLEAN, r \in {"ok", "error"} }
      [] kind = "SubstackExtractor" ->
            { [ fetch |-> "error", html_empty |-> FALSE, archive_fetch |-> "error",
                links |-> <<>>, posts |-> [l \in PostLinks |-> CHOOSE q \in Posts : q.fetch = "error"],
                main_author |-> None ] }

\* What the caller of extract can see of a call: whether it returned or raised,
\* the list it returned, and what it added to items.
Visible(outcome, result, added) == [outcome |-> outcome, result |-> result, added |-> added]

\* The record of a call.  n is the number of extractors registered when it was
\* made, ran the positions of the extractors whose extract was called, handed
\* what the selected extractor's extract returned; empties are the Visible
\* outcomes of the calls so far in which a handler ran and returned nothing.
Call(source, isfile, n, scan, outcome, result, added, empties) ==
    [ made |-> TRUE, source |-> source, isfile |-> isfile, n |-> n, outcome |-> outcome,
      result |-> result, added |-> added,
      ran |-> IF scan.stop = "selected" THEN <<scan.at>> ELSE <<>>,
      empties |-> IF scan.stop = "selected" /\ result = <<>>
                  THEN empties \cup {Visible(outcome, result, added)} ELSE empties ]

NoCall == [made |-> FALSE, empties |-> {}]

Init ==
    /\ extractors = <<>>
    /\ items = <<>>
    /\ returned = <<>>
    /\ last = NoCall
    /\ startup = <<>>
    /\ probe = [source |-> <<>>, isfile |-> FALSE, net |-> FALSE]
    /\ answers = <<>>
    /\ run = [phase |-> "none"]

\* manager.register_extractor(extractor)
RegisterExtractor(kind) ==
    /\ startup = <<>>
    /\ Len(extractors) < MaxExtractors
    /\ extractors' = register_extractor(extractors, kind)
    /\ UNCHANGED <<items, returned, last, startup, probe, answers, run>>

\* What PDFExtractor meets at the path when os.path.isfile(source) = isfile:
\* a file exists; what exists without being a file is a directory, which
\* open() refuses inside the try of _extract_from_pdf; what does not exist is
\* never opened.
AtPath(env, isfile) ==
    /\ isfile => env.exists
    /\ (env.exists /\ ~isfile) => env.file.reader = "error"
    /\ ~env.exists => env.file.reader = "ok"

\* manager.extract(source), with os.path.isfile(source) = isfile
ExtractCall(source, isfile) ==
    /\ startup = <<>>
    /\ LET scan == Scan(extractors, source, isfile, 1)
           kind == extractors[scan.at]
           envs == IF scan.stop # "selected" THEN {<<>>}
                   ELSE {env \in DispatchEnvs(kind) :
                            /\ Feasible(kind, source, env)
                            /\ kind = "MarkdownExtractor" => env.isfile = isfile
                            /\ kind = "PDFExtractor" => AtPath(env, isfile)}
       IN  \E env \in envs :
             LET out == IF scan.stop = "selected" THEN Extract(kind, source, env)
                        ELSE IF scan.stop = "raised" THEN Raise
                        ELSE Return(<<>>)
                 after == IF scan.stop = "selected" THEN extend(items, out.items) ELSE items
             IN  /\ Len(after) <= MaxItems
                 /\ items' = after
                 /\ returned' = returned \o out.items
                 /\ last' = Call(source, isfile, Len(extractors), scan,
                                 IF out.raised THEN "raised" ELSE "returned",
                                 out.items, SubSeq(after, Len(items) + 1, Len(after)),
                                 last.empties)
    /\ UNCHANGED <<extractors, startup, probe, answers, run>>

\* The caller starts a new run: manager.items = []
ResetItems ==
    /\ startup = <<>>
    /\ items' = <<>>
    /\ returned' = <<>>
    /\ UNCHANGED <<extractors, last, startup, probe, answers, run>>

Next ==
    \/ \E kind \in Kinds : RegisterExtractor(kind)
    \/ \E source \in DispatchSources : \E isfile \in BOOLEAN : ExtractCall(source, isfile)
    \/ ResetItems

Spec == Init /\ [][Next]_vars

----------------------------------------------------------------------------
(* SpecTech: TechContentExtractor.__init__ registers the extractors it      *)
(* discovers, then serves extract_from_source.  startup holds the modules   *)
(* of content_extraction.extractors still to import.                         *)

\* The modules of the extractors package and the ContentExtractor subclass of each.
ModuleNames == {"blog", "github", "markdown", "pdf", "substack"}

ClassOf(module) ==
    CASE module = "blog" -> "GenericBlogExtractor"
      [] module = "github" -> "GitHubExtractor"
      [] module = "markdown" -> "MarkdownExtractor"
      [] module = "pdf" -> "PDFExtractor"
      [] module = "substack" -> "SubstackExtractor"

\* The place of a name among the letters: the names differ in their first letter.
NameRank(module) ==
    CASE module = "blog" -> 2        \* b
      [] module = "github" -> 7      \* g
      [] module = "markdown" -> 13   \* m
      [] module = "pdf" -> 16        \* p
      [] module = "substack" -> 19   \* s

\* pkgutil.iter_modules(extractors.__path__): the module names, sorted.
iter_modules ==
    CHOOSE order \in [1..Cardinality(ModuleNames) -> ModuleNames] :
        \A i, j \in DOMAIN order : i < j => NameRank(order[i]) < NameRank(order[j])

InitTech ==
    /\ startup = iter_modules
    /\ extractors = <<>>
    /\ items = <<>>
    /\ returned = <<>>
    /\ last = NoCall
    /\ probe = [source |-> <<>>, isfile |-> FALSE, net |-> FALSE]
    /\ answers = <<>>
    /\ run = [phase |-> "none"]

\* One turn of the loop of _register_extractors: the module is imported and
\* its extractor registered.
ImportNextModule ==
    /\ startup # <<>>
    /\ extractors' = register_extractor(extractors, ClassOf(Head(startup)))
    /\ startup' = Tail(startup)
    /\ UNCHANGED <<items, returned, last, probe, answers, run>>

\* One turn of the loop in which the import raises: the error is logged and the
\* loop goes on.
ImportFails ==
    /\ startup # <<>>
    /\ startup' = Tail(startup)
    /\ UNCHANGED <<extractors, items, returned, last, probe, answers, run>>

NextTech ==
    \/ ImportNextModule
    \/ ImportFails
    \/ \E source \in DispatchSources : \E isfile \in BOOLEAN : ExtractCall(source, isfile)
    \/ ResetItems

SpecTech == InitTech /\ [][NextTech]_vars

----------------------------------------------------------------------------
(* Claims on the manager (Spec) *)

\* The positions, among the extractors registered when the call was made, of
\* those whose can_handle accepts its source.
Accepting(call) ==
    {i \in 1..call.n : can_handle(extractors[i], call.source, call.isfile) = "True"}

(* C1: when some registered extractor accepts the source, ExtractorManager.extract
   returns after calling extract on exactly one extractor, the earliest
   registered one that accepts: no other extractor's extract is called. *)
C1_FirstRegisteredMatchRuns ==
    last.made =>
        LET accepting == Accepting(last)
        IN  accepting # {} =>
                /\ last.outcome = "returned"
                /\ last.ran = << CHOOSE i \in accepting : \A j \in accepting : i <= j >>

(* C2: ExtractorManager.extract returns a list and never raises, whatever the
   source and the registered extractors. *)
C2_ExtractNeverRaises ==
    last.made => last.outcome = "returned"

(* C4: items is the concatenation, in call order, of the lists the extract
   calls returned since the caller last reassigned items; each call adds to
   items exactly the list it returns (nothing when no handler is found). *)
C4_ItemsAreTheReturnedLists ==
    /\ items = returned
    /\ last.made => last.added = last.result

\* Two calls have added their records, and a later call found no handler.
C4_Witness ==
    /\ Len(items) = 2
    /\ items[1].source_url # items[2].source_url
    /\ last.made
    /\ last.outcome = "returned"
    /\ last.ran = <<>>
    /\ Len(extractors) > 0

(* C5: what the caller sees of an extract call that found no handler differs
   from what it sees of every call in which a handler ran and returned no
   record. *)
C5_NoHandlerIsDistinguishable ==
    (last.made /\ last.outcome = "returned" /\ last.ran = <<>>) =>
        Visible(last.outcome, last.result, last.added) \notin last.empties

----------------------------------------------------------------------------
(* Claims on start-up (SpecTech) *)

\* The position of an extractor kind in the list, 0 when it is not registered.
Position(kind) ==
    IF \E i \in DOMAIN extractors : extractors[i] = kind
    THEN CHOOSE i \in DOMAIN extractors : extractors[i] = kind
    ELSE 0

(* C7: once start-up is over, each of GitHubExtractor, SubstackExtractor and
   PDFExtractor that is registered comes before GenericBlogExtractor in the
   list of extractors. *)
C7_SpecificBeforeGeneric ==
    (startup = <<>> /\ Position("GenericBlogExtractor") > 0) =>
        \A kind \in {"GitHubExtractor", "SubstackExtractor", "PDFExtractor"} :
            Position(kind) > 0 => Position(kind) < Position("GenericBlogExtractor")

----------------------------------------------------------------------------
(* Claims on the extractors (SpecExtract) *)

\* The whole run failed: the source could not be fetched, downloaded, found,
\* read or converted.
RunFailed(kind, source, env) ==
    CASE kind = "GenericBlogExtractor" -> env.fetch # "ok" \/ env.convert # "ok"
      [] kind = "GitHubExtractor" ->
            \/ ~urlparse(source).ok
            \/ env.readme.status # "ok" /\ \A d \in DOMAIN env.dirs : env.dirs[d].status # "ok"
      [] kind = "MarkdownExtractor" -> env.load # "ok"
      [] kind = "PDFExtractor" ->
            \/ IsDrive(source) /\ env.download # "ok"
            \/ ~IsDrive(source) /\ ~env.exists
            \/ env.file.reader # "ok"
      [] kind = "SubstackExtractor" -> env.fetch # "ok" \/ env.archive_fetch # "ok"

\* The texts of the README and of the files of a repository whose requests
\* succeeded.
FetchedTexts(env) ==
    {env.readme.text : x \in {y \in {1} : env.readme.status = "ok"}}
    \cup UNION { {env.dirs[d].contents[i].text :
                    i \in {j \in DOMAIN env.dirs[d].contents :
                             env.dirs[d].contents[j].fetch = "ok"}} :
                 d \in {e \in DOMAIN env.dirs : env.dirs[e].status = "ok"} }

(* C3: an extract call of any of the five extractors returns a list and does
   not raise; when the run as a whole fails the list is empty, and the list of
   GitHubExtractor holds only records of the requests that succeeded, the
   README's among them when its request succeeded. *)
C3_ExtractNeverPropagates ==
    run.phase = "done" =>
        /\ ~run.out.raised
        /\ RunFailed(run.kind, run.source, run.env) => run.out.items = <<>>
        /\ (run.kind = "GitHubExtractor" /\ Len(PathSplit(urlparse(run.source).path)) >= 2) =>
              /\ \A i \in DOMAIN run.out.items :
                    run.out.items[i].content \in FetchedTexts(run.env)
              /\ run.env.readme.status = "ok" =>
                    /\ run.out.items # <<>>
                    /\ run.out.items[1].content = run.env.readme.text

\* GitHubExtractor has returned the one record that succeeded: the README
\* request failed, and so did the request for the second file of docs.
C3_Witness ==
    /\ run.phase = "done"
    /\ run.kind = "GitHubExtractor"
    /\ run.env.readme.status = "error"
    /\ run.env.dirs[1].status = "ok"
    /\ \E i \in DOMAIN run.env.dirs[1].contents : run.env.dirs[1].contents[i].fetch = "error"
    /\ ~run.out.raised
    /\ Len(run.out.items) = 1

(* C9: every record an extract call returns has content of at least
   MinContentLength (100) characters. *)
C9_ContentAtLeastMinimum ==
    run.phase = "done" =>
        \A i \in DOMAIN run.out.items : TextLen(run.out.items[i].content) >= MinContentLength

(* C10: every record an extract call returns has a title that is not empty. *)
C10_TitleNotEmpty ==
    run.phase = "done" =>
        \A i \in DOMAIN run.out.items : run.out.items[i].title # <<>>

\* The ids of a list of records, in order.
Ids(list) == [i \in DOMAIN list |-> list[i].id]

(* C11: a second extract call on the same source, with the same content
   fetched, returns records with the same sequence of ids as the first call,
   even when the name drawn for the temporary file of a download differs. *)
C11_SameSourceSameIds ==
    (run.phase = "again" /\ run.source2 = run.source) =>
        /\ run.out2.raised = run.out.raised
        /\ Ids(run.out2.items) = Ids(run.out.items)

\* A Google-Drive PDF was downloaded twice under two temporary names: the
\* titles, which fall back to the file name, differ, and the ids are the same.
C11_Witness ==
    /\ run.phase = "again"
    /\ run.kind = "PDFExtractor"
    /\ run.source2 = run.source
    /\ IsDrive(run.source)
    /\ run.env2.tmpname # run.env.tmpname
    /\ run.out.items # <<>>
    /\ run.out2.items[1].title # run.out.items[1].title
    /\ Ids(run.out2.items) = Ids(run.out.items)

(* C12: any two records of the list one extract call returns that differ in
   title or in part index (the records of a PDF all differ in chapter index)
   have different ids. *)
C12_DistinctRecordsDistinctIds ==
    run.phase = "done" =>
        \A i, j \in DOMAIN run.out.items :
            (i # j /\ (run.out.items[i].title # run.out.items[j].title
                        \/ run.kind = "PDFExtractor"))
                => run.out.items[i].id # run.out.items[j].id

(* C13: records that MarkdownExtractor or GenericBlogExtractor makes from two
   different sources never have the same id, even when their titles are
   equal. *)
C13_DifferentSourcesDifferentIds ==
    (/\ run.phase = "again"
     /\ run.kind \in {"MarkdownExtractor", "GenericBlogExtractor"}
     /\ run.source2 # run.source) =>
        \A i \in DOMAIN run.out.items : \A j \in DOMAIN run.out2.items :
            run.out.items[i].id # run.out2.items[j].id

\* A post that can be fetched, has a title, has main-content HTML and markdown
\* of at least the minimum length, and an author that is empty or the
\* principal author.
PostQualifies(post, main_author) ==
    /\ post.fetch = "ok"
    /\ ~PostTitleRaises(post)
    /\ post.html_len >= MinContentLength
    /\ TextLen(post.markdown) >= MinContentLength
    /\ post.author \in {None, <<>>, main_author}

(* C14: when the listing page of a Substack source has k distinct post links
   and every one of the posts qualifies, SubstackExtractor.extract returns k
   records, one per link in listing order, each of content_type "newsletter"
   with the link as source_url. *)
C14_OneRecordPerPost ==
    (/\ run.phase = "done"
     /\ run.kind = "SubstackExtractor"
     /\ run.env.fetch = "ok" /\ ~run.env.html_empty /\ run.env.archive_fetch = "ok"
     /\ \A i \in DOMAIN run.env.links :
            PostQualifies(run.env.posts[run.env.links[i]], run.env.main_author)) =>
        /\ ~run.out.raised
        /\ Len(run.out.items) = Len(Unique(run.env.links))
        /\ \A i \in DOMAIN run.out.items :
              /\ run.out.items[i].content_type = "newsletter"
              /\ run.out.items[i].source_url = Unique(run.env.links)[i]

\* The positions of the README records and of the documentation-file records
\* in a list GitHubExtractor returned: the id of a README record ends in
\* "/README".
ReadmeRecords(list) == {i \in DOMAIN list : Last(list[i].id) = "/README"}

DocRecords(list) == DOMAIN list \ ReadmeRecords(list)

(* C15: GitHubExtractor.extract returns at most one README record and at most
   max_files documentation-file records, counted over the docs, documentation
   and doc directories together. *)
C15_AtMostMaxFilesInTotal ==
    (run.phase = "done" /\ run.kind = "GitHubExtractor") =>
        /\ Cardinality(ReadmeRecords(run.out.items)) <= 1
        /\ Cardinality(DocRecords(run.out.items)) <= max_files

\* An entry of a directory listing that _extract_docs asks for: a file with
\* one of the extensions.
Eligible(item) == item.type = "file" /\ Last(item.name) \in file_extensions

\* An entry whose request gives a text to record.
Readable(item) == item.fetch = "ok" /\ item.base64 /\ item.decodable /\ item.text # <<>>

\* Entry i of a listing that responded becomes a record: it is eligible and
\* readable, no request for an eligible entry before it failed, and fewer
\* than max_files entries before it were already recorded.
Recorded(contents, i) ==
    /\ Eligible(contents[i]) /\ Readable(contents[i])
    /\ \A j \in 1..(i - 1) : Eligible(contents[j]) => contents[j].fetch = "ok"
    /\ Cardinality({j \in 1..(i - 1) : Eligible(contents[j]) /\ Readable(contents[j])})
          < max_files

RECURSIVE RecordedTexts(_, _)
\* The texts of the recorded entries of a listing from entry i on, in order.
RecordedTexts(contents, i) ==
    IF i > Len(contents) THEN <<>>
    ELSE (IF Recorded(contents, i) THEN <<contents[i].text>> ELSE <<>>)
            \o RecordedTexts(contents, i + 1)

\* What a directory contributes: nothing when its request answered 404 or
\* failed.
DirectoryTexts(dir) == IF dir.status = "ok" THEN RecordedTexts(dir.contents, 1) ELSE <<>>

(* C16: GitHubExtractor.extract on a repository URL does not fail when the
   request for the README or for a directory answers 404 or fails: it returns
   the README record if the README was fetched, followed by the records of
   each directory that responded, in the order docs, documentation, doc; with
   a README and three 404 answers it returns exactly one record, of
   content_type "documentation". *)
C16_FailuresSkipOnlyTheirPart ==
    (/\ run.phase = "done"
     /\ run.kind = "GitHubExtractor"
     /\ urlparse(run.source).ok
     /\ Len(PathSplit(urlparse(run.source).path)) >= 2) =>
        /\ ~run.out.raised
        /\ [i \in DOMAIN run.out.items |-> run.out.items[i].content]
              = (IF run.env.readme.status = "ok" THEN <<run.env.readme.text>> ELSE <<>>)
                  \o DirectoryTexts(run.env.dirs[1]) \o DirectoryTexts(run.env.dirs[2])
                  \o DirectoryTexts(run.env.dirs[3])
        /\ ReadmeRecords(run.out.items) = {i \in {1} : run.env.readme.status = "ok"}
        /\ \A i \in DOMAIN run.out.items : run.out.items[i].content_type = "documentation"
        /\ (run.env.readme.status = "ok" /\ \A d \in 1..3 : run.env.dirs[d].status = "404")
              => Len(run.out.items) = 1

\* The requests for the README and for docs failed and doc responded: the
\* call returned the record of the file of doc.
C16_Witness ==
    /\ run.phase = "done"
    /\ run.kind = "GitHubExtractor"
    /\ Len(PathSplit(urlparse(run.source).path)) >= 2
    /\ run.env.readme.status = "error"
    /\ run.env.dirs[1].status = "error"
    /\ run.env.dirs[2].status = "404"
    /\ run.env.dirs[3].status = "ok"
    /\ Len(run.out.items) = 1
    /\ run.out.items[1].content = run.env.dirs[3].contents[1].text

\* MarkdownExtractor.extract was called on a source its can_handle accepts
\* and the text was loaded.
MarkdownLoaded ==
    /\ run.phase = "done"
    /\ run.kind = "MarkdownExtractor"
    /\ MarkdownCanHandle(run.source, run.env.isfile) = "True"
    /\ run.env.load = "ok"

(* C17: for a source MarkdownExtractor.can_handle accepts and whose text loads
   without error, an empty text included, MarkdownExtractor.extract returns
   exactly one record, with the loaded text as content and content_type
   "documentation". *)
C17_ExactlyOneRecord ==
    MarkdownLoaded =>
        /\ Len(run.out.items) = 1
        /\ run.out.items[1].content = run.env.text
        /\ run.out.items[1].content_type = "documentation"

(* C17, amended: when the loaded text is not empty, however short, the call
   returns exactly one record with the loaded text as content and
   content_type "documentation"; when the loaded text is empty it returns no
   record. *)
C17_OneRecordUnlessEmpty ==
    MarkdownLoaded =>
        IF run.env.text = <<>> THEN run.out.items = <<>>
        ELSE /\ Len(run.out.items) = 1
             /\ run.out.items[1].content = run.env.text
             /\ run.out.items[1].content_type = "documentation"

\* A text of fewer than 100 characters was loaded and returned as the one record.
C17_Witness ==
    /\ MarkdownLoaded
    /\ run.env.text # <<>>
    /\ TextLen(run.env.text) < MinContentLength
    /\ Len(run.out.items) = 1
    /\ run.out.items[1].content = run.env.text

(* C18: whenever a call of PDFExtractor.extract on a source it handles enters the text-extraction
   stage, for a local path as for a Google-Drive download, the validation of
   the magic number came before it and the bytes of the file start with
   %PDF-. *)
C18_ValidationPrecedesTextExtraction ==
    (run.phase = "done" /\ run.kind = "PDFExtractor" /\ PDFCanHandle(run.source) = "True") =>
        \A j \in DOMAIN run.stages :
            run.stages[j] = "extract_text" =>
                /\ run.env.file.magic
                /\ \E i \in 1..(j - 1) : run.stages[i] = "validate"

\* The positions of the configured patterns that match the text of the file.
MatchingPatterns(config, file) ==
    {p \in DOMAIN config.patterns :
        ChapterMatches(config.patterns[p], FullText(file.pages), 1) # <<>>}

\* The number of records for n chapters under the limit cap.
Capped(n, cap) == IF cap > 0 /\ cap < n THEN cap ELSE n

(* C19: when PDFExtractor reads a PDF, it uses the first configured chapter
   pattern that matches and no other; for the n >= 1 chapters of that pattern
   it returns n records, or min(n, max_chapters) when max_chapters > 0, the
   i-th titled with the i-th chapter and with an id made of the source and
   the index i, all ids different; when no pattern matches it returns exactly
   one record for the whole document. *)
C19_ChaptersOfFirstMatchingPattern ==
    (/\ run.phase = "done"
     /\ run.kind = "PDFExtractor"
     /\ \E j \in DOMAIN run.stages : run.stages[j] = "extract_text"
     /\ run.env.file.reader = "ok") =>
        LET config == run.env.config
            matching == MatchingPatterns(config, run.env.file)
            records == run.out.items
        IN  IF matching = {}
            THEN /\ Len(records) = 1
                 /\ records[1].id = uuid5(run.source)
            ELSE LET first == CHOOSE p \in matching : \A q \in matching : p <= q
                     chapters == ChaptersOf(config.patterns[first], FullText(run.env.file.pages))
                 IN  /\ Len(chapters) >= 1
                     /\ Len(records) = Capped(Len(chapters), config.max_chapters)
                     /\ \A i \in DOMAIN records :
                           /\ records[i].id = uuid5(run.source \o <<"#", ToString(i - 1)>>)
                           /\ LET tail == <<" - ">> \o chapters[i].title
                                  title == records[i].title
                              IN  /\ Len(title) >= Len(tail)
                                  /\ SubSeq(title, Len(title) - Len(tail) + 1, Len(title)) = tail
                     /\ \A i, j \in DOMAIN records : i # j => records[i].id # records[j].id

\* Two patterns are configured and both match the text: the records are the
\* two chapters of the first pattern.
C19_Witness ==
    /\ run.phase = "done"
    /\ run.kind = "PDFExtractor"
    /\ run.env.file.reader = "ok"
    /\ \E j \in DOMAIN run.stages : run.stages[j] = "extract_text"
    /\ Cardinality(MatchingPatterns(run.env.config, run.env.file)) = 2
    /\ Len(run.out.items) = 2
    /\ Len(ChaptersOf(run.env.config.patterns[2], FullText(run.env.file.pages))) = 1

----------------------------------------------------------------------------
(* SpecClassify: the two stand-alone tools, ContentIngestionTool and         *)
(* TechKnowledgeExtractor (which owns a ContentIngestionTool, content_tool). *)
(* items is self.items of the tool that is called.  run.env is what the      *)
(* call meets: for a page that is fetched and classified, the number of      *)
(* elements find_all counts as articles and the number of anchors whose href *)
(* matches /(article|post|blog)/; listed, the links found on a listing or    *)
(* archive page; pages, what process_web_page does on each url; and, for a   *)
(* PDF, the file.  A call of process_web_page on a url has the same outcome  *)
(* each time it is made within one call of a tool.                           *)

MaxArticles == 5
MaxLinks == 12
MaxCalls == 2

\* The source and the links of a listing page.
PageUrls == {"source", "link1", "link2"}

\* process_web_page on a url: it returns one record, or [] after a
\* requests.RequestException, or raises any other exception.
PageOutcomes == {"record", "empty", "raises"}

\* determine_content_type on the pages: the url of link1 holds "blog", those
\* of link2 and of the source do not.
PageType(url) == IF url = "link1" THEN "blog" ELSE "other"

\* An element of a page that carries a signal: its text (for a meta tag its
\* content), and whether it lies inside an element that the caller's cleaning
\* of the parsed page removes.
Element(text, removed) == [text |-> text, removed |-> removed]

\* The elements of a signal that are left after the cleaning.
Remaining(elements) == SelectSeq(elements, LAMBDA element : ~element.removed)

\* soup.find / soup.select_one for a signal: the text of the first of its
\* elements, None without one.
TextOfFirst(elements) == IF elements = <<>> THEN None ELSE elements[1].text

\* The HTML of the pages: the text of the first h1 and of the title tag and
\* the content of the meta tags og:title and name=title, None for what the
\* page does not have; and, in document order, the meta tags
\* property=author, og:author and name=author, the a rel=author elements, the
\* elements with a class holding "author" and the elements with
\* itemprop=author.  An author element is removed when it lies inside a nav,
\* .nav, .menu, .sidebar, .comments, .footer, .header, script or style element
\* of the main, article or content div of the page.
NoTags ==
    [ h1 |-> None, title |-> None, og_title |-> None, name_title |-> None,
      property_author |-> <<>>, og_author |-> <<>>, name_author |-> <<>>,
      rel_author |-> <<>>, class_author |-> <<>>, itemprop_author |-> <<>> ]

PageHtml(url) ==
    CASE url = "link1" ->
            [NoTags EXCEPT !.h1 = <<"Heading">>, !.title = <<"page">>,
                           !.name_author = <<Element(<<"Di">>, TRUE)>>,
                           !.og_author = <<Element(<<"Ann", " ">>, FALSE)>>]
      [] url = "link2" ->
            [NoTags EXCEPT !.title = <<"page">>,
                           !.class_author = <<Element(<<" ", "Bob", " ">>, TRUE),
                                              Element(<<"Zed">>, FALSE)>>]
      [] OTHER -> [NoTags EXCEPT !.title = <<"page">>]

\* a or b or ...: the first element that was found, None when none was.
FirstFound(elements) ==
    IF \A i \in DOMAIN elements : elements[i] = None THEN None
    ELSE elements[CHOOSE i \in DOMAIN elements :
                      /\ elements[i] # None
                      /\ \A j \in 1..(i - 1) : elements[j] = None]

\* ContentIngestionTool.extract_title_from_html
ExtractTitleFromHtml(page) ==
    LET title_element == FirstFound(<<page.h1, page.title, page.og_title, page.name_title>>)
    IN  IF title_element = None THEN <<"Untitled Content">> ELSE Strip(title_element)

\* ContentIngestionTool.extract_author_from_html: a meta tag with a content
\* that is not empty, else an element.
ExtractAuthorFromHtml(page) ==
    LET author_meta == FirstFound(<<TextOfFirst(page.property_author), TextOfFirst(page.og_author),
                                    TextOfFirst(page.name_author)>>)
        author_element == FirstFound(<<TextOfFirst(page.rel_author), TextOfFirst(page.class_author),
                                       TextOfFirst(page.itemprop_author)>>)
    IN  IF author_meta # None /\ author_meta # <<>> THEN Strip(author_meta)
        ELSE IF author_element # None THEN Strip(author_element)
        ELSE <<>>

\* The item process_web_page makes of a page.
WebItem(url) ==
    [ title |-> ExtractTitleFromHtml(PageHtml(url)), content_type |-> PageType(url),
      source_url |-> <<url>>, author |-> ExtractAuthorFromHtml(PageHtml(url)) ]

\* ContentIngestionTool.process_web_page
ProcessWebPage(url, pages) ==
    [ raised |-> pages[url] = "raises",
      items |-> IF pages[url] = "record" THEN <<WebItem(url)>> ELSE <<>> ]

\* if article_count > 3 or link_count > 10, read with >= in place of >.
IsListPage_at_threshold(article_count, link_count) ==
    article_count >= 3 \/ link_count >= 10

\* The test of process_source and of process_generic_blog.
IsListPage(article_count, link_count) ==
    article_count > 3 \/ link_count > 10

RECURSIVE ProcessWebPages(_, _, _)
\* for link in links: items = process_web_page(link); self.items.extend(items).
\* added is what the loop appended, processed the urls it handed to
\* process_web_page.  With catching, an exception of process_web_page is
\* caught inside the loop, which goes on; without, it ends the loop and leaves
\* it, what was appended before staying appended.
ProcessWebPages(urls, pages, catching) ==
    IF urls = <<>> THEN [added |-> <<>>, processed |-> <<>>, raised |-> FALSE]
    ELSE LET got == ProcessWebPage(Head(urls), pages)
         IN  IF got.raised /\ ~catching
             THEN [added |-> <<>>, processed |-> <<Head(urls)>>, raised |-> TRUE]
             ELSE LET rest == ProcessWebPages(Tail(urls), pages, catching)
                  IN  [ added |-> got.items \o rest.added,
                        processed |-> <<Head(urls)>> \o rest.processed,
                        raised |-> rest.raised ]

\* The urls the classification hands to process_web_page.
Targets(page) ==
    IF IsListPage(page.article_count, page.link_count) THEN page.listed ELSE <<"source">>

\* ContentIngestionTool.detect_source_type
DetectSourceType(source) ==
    IF EndsWith(Lower(source), ".pdf") THEN "pdf"
    ELSE IF source # <<>> /\ Head(source) \in {"http://", "https://"} THEN "url"
    ELSE "unknown"

\* The item process_pdf makes of a chapter, or of a whole file.
PdfItem(title, pdf_path) ==
    [ title |-> title, content_type |-> "book", source_url |-> Basename(pdf_path),
      author |-> <<>> ]

\* The title of a chapter: "Chapter <num>", followed by its first line when it
\* has one that is shorter than 100 characters.
ChapterTitle(chapter) ==
    IF chapter.heading # None /\ StrLen(chapter.heading) < 100
    THEN <<"Chapter ", chapter.num, ": ">> \o chapter.heading
    ELSE <<"Chapter ", chapter.num>>

\* ContentIngestionTool.process_pdf.  file.chapters are the matches of the
\* chapter pattern in the text: their number (digits or a roman numeral) and
\* the first line of their content (None without one).
ProcessPdf(pdf_path, file) ==
    IF ~file.exists THEN <<>>
    ELSE IF file.reader # "ok" THEN <<>>   \* except Exception: return []
    ELSE IF file.chapters # <<>>
    THEN [k \in DOMAIN file.chapters |-> PdfItem(ChapterTitle(file.chapters[k]), pdf_path)]
    ELSE << PdfItem(Stem(pdf_path), pdf_path) >>

\* filter by main author: not post["author"] or post["author"] == main_author
KeptByAuthor(posts, main_author) ==
    IF main_author = <<>> THEN posts
    ELSE SelectSeq(posts, LAMBDA post : post.author = <<>> \/ post.author = main_author)

\* ContentIngestionTool.process_substack: [] when the request for the archive
\* page fails; an exception of process_web_page other than a RequestException
\* leaves it.
ProcessSubstack(env) ==
    IF env.archive # "ok" THEN [items |-> <<>>, raised |-> FALSE]
    ELSE LET posts == ProcessWebPages(env.listed, env.pages, FALSE)
         IN  IF posts.raised THEN [items |-> <<>>, raised |-> TRUE]
             ELSE [items |-> KeptByAuthor(posts.added, env.main_author), raised |-> FALSE]

\* The number of a chapter whose title matches r'Chapter (\d+)'; 0 for a
\* title that does not match.
ChapterDigits(title) ==
    IF Len(title) >= 2 /\ title[1] = "Chapter "
    THEN CASE title[2] = "1" -> 1
           [] title[2] = "9" -> 9
           [] OTHER -> 0
    ELSE 0

\* first_8_chapters: the items whose title has no chapter number in digits or
\* one that is at most 8.
First8Chapters(list) == SelectSeq(list, LAMBDA item : ChapterDigits(item.title) <= 8)

\* re.search(r'[-\w]{25,}', gdrive_link) finds an id.
HasDriveId(link) == link.id

\* TechKnowledgeExtractor._process_single_gdrive_pdf, reached from
\* process_book_chapters_from_gdrive when the link holds an id: what it adds
\* to self.items.  The download leaves the file at <temp_dir>/book.pdf; an
\* empty file after it is a failed download.
ProcessBookChapters(env) ==
    IF ~HasDriveId(env.link) THEN <<>>
    ELSE IF env.download # "ok" THEN <<>>
    ELSE First8Chapters(ProcessPdf(<<"/tmp", "/", "book", ".pdf">>, [env.file EXCEPT !.exists = TRUE]))

\* The title of the direct extraction: soup.title or soup.find('h1').
FallbackTitle(page) ==
    LET title_element == FirstFound(<<page.title, page.h1>>)
    IN  IF title_element = None THEN <<"Untitled Content">> ELSE Strip(title_element)

\* The author of the direct extraction, looked up after the content element
\* was cleaned: the content of the meta tag name=author or og:author as it
\* is, else the stripped text of the element with an author class.
FallbackAuthor(page) ==
    LET name_author == TextOfFirst(Remaining(page.name_author))
        og_author == TextOfFirst(Remaining(page.og_author))
        class_author == TextOfFirst(Remaining(page.class_author))
    IN  IF name_author # None THEN name_author
        ELSE IF og_author # None THEN og_author
        ELSE IF class_author # None THEN Strip(class_author)
        ELSE <<>>

\* _extract_content_with_fallback after process_web_page gave nothing or
\* raised: process_web_page once more, then the direct extraction, which gives
\* a "blog" item or, on any exception, [].
FallbackItems(url, env) ==
    IF env.pages[url] = "record" THEN <<WebItem(url)>>
    ELSE IF env.fallback = "ok"
    THEN << [ title |-> FallbackTitle(PageHtml(url)), content_type |-> "blog",
              source_url |-> <<url>>, author |-> FallbackAuthor(PageHtml(url)) ] >>
    ELSE <<>>

\* The four site methods and whether they make guides.
Sites == {"interviewing_io_blog", "interviewing_io_company_guides", "interviewing_io_interview_guides", "nilmamano_dsa_posts"}
MakesGuides(site) == site \in {"interviewing_io_company_guides", "interviewing_io_interview_guides"}

\* process_interviewing_io_blog keeps only the hrefs that hold "/blog/".
KeepsBlogLinks(site) == site = "interviewing_io_blog"

\* The content_type of an item a site method appends.  The guide methods set
\* it to "guide".  A link of process_interviewing_io_blog holds "/blog/", and
\* determine_content_type gives "blog" for every url that holds "blog".
SiteContentType(site, item) ==
    IF MakesGuides(site) THEN "guide"
    ELSE IF KeepsBlogLinks(site) THEN "blog"
    ELSE item.content_type

\* The body of the link loop of the four site methods for one link.
SiteLinkItems(url, env, site) ==
    LET got == ProcessWebPage(url, env.pages)
        found == IF got.raised \/ got.items = <<>> THEN FallbackItems(url, env) ELSE got.items
    IN  [i \in DOMAIN found |-> [found[i] EXCEPT !.content_type = SiteContentType(site, found[i])]]

RECURSIVE SiteItems(_, _, _)
\* The link loop of a site method.
SiteItems(urls, env, site) ==
    IF urls = <<>> THEN <<>>
    ELSE SiteLinkItems(Head(urls), env, site) \o SiteItems(Tail(urls), env, site)

\* What a site method adds to self.items: nothing when the links cannot be
\* had (the request for the listing page fails).  env.listing[site].links are
\* the links the method goes through: for process_interviewing_io_blog, the
\* hrefs with "/blog/".
ProcessSite(site, env) ==
    IF env.listing[site].fetch # "ok" THEN <<>>
    ELSE SiteItems(env.listing[site].links, env, site)

RECURSIVE ProcessSites(_, _)
\* The site methods called one after the other.
ProcessSites(sites, env) ==
    IF sites = <<>> THEN <<>>
    ELSE ProcessSite(Head(sites), env) \o ProcessSites(Tail(sites), env)

\* The sources handed to process_source.
ClassifySources ==
    { <<"book", ".pdf">>, <<"https://", "example.com", "/owner", ".pdf">>,
      <<"https://", "news.substack.com">>, <<"https://", "example.com", "/owner">>,
      <<"notes">> }

\* The PDF files.
ClassifyFiles ==
    { [exists |-> FALSE, reader |-> "ok", chapters |-> <<>>],
      [exists |-> TRUE, reader |-> "error", chapters |-> <<>>],
      [exists |-> TRUE, reader |-> "ok", chapters |-> <<>>],
      [exists |-> TRUE, reader |-> "ok",
       chapters |-> << [num |-> "1", heading |-> <<"Intro">>], [num |-> "9", heading |-> None] >>],
      [exists |-> TRUE, reader |-> "ok", chapters |-> << [num |-> "IV", heading |-> <<Pad(100)>>] >>] }

\* The listing a site method reads: its request fails, or it gives links.
SiteListings ==
    { [fetch |-> "error", links |-> <<>>], [fetch |-> "ok", links |-> <<"link1">>],
      [fetch |-> "ok", links |-> <<"link1", "link2">>] }

\* An environment in which nothing is found and nothing fails.
DefaultEnv ==
    [ article_count |-> 0, link_count |-> 0, listed |-> <<>>,
      pages |-> [u \in PageUrls |-> "record"], fetch |-> "ok",
      archive |-> "ok", main_author |-> <<>>,
      file |-> [exists |-> FALSE, reader |-> "ok", chapters |-> <<>>],
      link |-> [id |-> TRUE, folder |-> FALSE], download |-> "ok",
      fallback |-> "ok", listing |-> [s \in Sites |-> [fetch |-> "ok", links |-> <<>>]] ]

Listings == {<<>>, <<"link1">>, <<"link1", "link2">>}

\* The environments of a classified page.
WebEnvs ==
    { [DefaultEnv EXCEPT !.article_count = a, !.link_count = l, !.listed = ls,
                         !.pages = p, !.fetch = f] :
        a \in 0..MaxArticles, l \in 0..MaxLinks, ls \in Listings,
        p \in [PageUrls -> PageOutcomes], f \in {"ok", "error"} }

\* The environments of a Substack archive.
ArchiveEnvs ==
    { [DefaultEnv EXCEPT !.archive = a, !.listed = ls, !.pages = p, !.main_author = m] :
        a \in {"ok", "error"}, ls \in Listings,
        p \in [PageUrls -> PageOutcomes], m \in {<<>>, <<"Ann">>} }

\* The environments of a PDF file.
FileEnvs == { [DefaultEnv EXCEPT !.file = f] : f \in ClassifyFiles }

\* The environments of a Google Drive link.
DriveEnvs ==
    { [DefaultEnv EXCEPT !.file = f, !.link = k, !.download = d] :
        f \in ClassifyFiles, k \in [id : BOOLEAN, folder : BOOLEAN], d \in {"ok", "empty"} }

\* The environments of the site methods.
SiteEnvs ==
    { [DefaultEnv EXCEPT !.listing = g, !.pages = p, !.fallback = b] :
        g \in [Sites -> SiteListings],
        p \in {q \in [PageUrls -> PageOutcomes] : q["source"] = "record"},
        b \in {"ok", "error"} }

\* The environments of process_all_sources: those of the sites, with or
\* without a Google Drive link.
AllSourcesEnvs ==
    { [e EXCEPT !.file = f, !.link = k] :
        e \in SiteEnvs,
        f \in {x \in ClassifyFiles : x.chapters # <<>>},
        k \in {[id |-> FALSE, folder |-> FALSE], [id |-> TRUE, folder |-> FALSE]} }

\* The methods of TechKnowledgeExtractor that take a source.
SiteMethod(site) == "process_" \o site

\* The environments a call of a method on a source meets.
ClassifyEnvs(method, source) ==
    CASE method = "process_source" ->
            (CASE DetectSourceType(source) = "pdf" -> FileEnvs
               [] DetectSourceType(source) = "url" ->
                    IF Contains(Lower(source), "substack.com") THEN ArchiveEnvs ELSE WebEnvs
               [] OTHER -> {DefaultEnv})
      [] method = "process_generic_blog" -> WebEnvs
      [] method = "process_substack" -> ArchiveEnvs
      [] method = "process_pdf_file" -> FileEnvs
      [] method = "process_book_chapters_from_gdrive" -> DriveEnvs
      [] method = "process_all_sources" -> AllSourcesEnvs
      [] OTHER -> SiteEnvs

\* The methods of the two tools that change self.items, each with the
\* sources it is called on.
ClassifyCalls ==
    [tool : {"ContentIngestionTool"}, method : {"process_source"}, source : ClassifySources]
    \cup [tool : {"TechKnowledgeExtractor"}, method : {"process_generic_blog"},
          source : {<<"https://", "example.com", "/owner">>}]
    \cup [tool : {"TechKnowledgeExtractor"}, method : {"process_substack"},
          source : {<<"https://", "news.substack.com">>}]
    \cup [tool : {"TechKnowledgeExtractor"}, method : {"process_pdf_file"},
          source : {<<"book", ".pdf">>}]
    \cup [tool : {"TechKnowledgeExtractor"},
          method : {"process_book_chapters_from_gdrive", "process_all_sources"}
                   \cup {SiteMethod(site) : site \in Sites},
          source : {<<>>}]

InitClassify ==
    /\ \E call \in ClassifyCalls : \E env \in ClassifyEnvs(call.method, call.source) :
          run = [ phase |-> "called", tool |-> call.tool, method |-> call.method,
                  source |-> call.source, env |-> env, calls |-> 0,
                  mode |-> "none", processed |-> <<>>, added |-> <<>>, raised |-> FALSE,
                  saved |-> FALSE ]
    /\ probe = [source |-> <<>>, isfile |-> FALSE, net |-> FALSE]
    /\ answers = <<>>
    /\ extractors = <<>>
    /\ items = <<>>
    /\ returned = <<>>
    /\ last = [made |-> FALSE, empties |-> {}]
    /\ startup = <<>>

\* A call of a method ends: it appended added to self.items.
Finish(method, mode, processed, added, raised, saved) ==
    /\ run.phase = "called"
    /\ run.method = method
    /\ run' = [run EXCEPT !.phase = "done", !.calls = @ + 1, !.mode = mode,
                          !.processed = processed, !.added = added, !.raised = raised,
                          !.saved = saved]
    /\ items' = items \o added
    /\ UNCHANGED <<probe, answers, extractors, returned, last, startup>>

\* The classification of a fetched page and the loop over its targets.
Classified(env, catching) ==
    LET loop == ProcessWebPages(Targets(env), env.pages, catching)
    IN  [ mode |-> IF IsListPage(env.article_count, env.link_count) THEN "listing" ELSE "single",
          processed |-> loop.processed, added |-> loop.added, raised |-> loop.raised ]

\* ContentIngestionTool.process_source
ProcessSource ==
    LET env == run.env
        kind == DetectSourceType(run.source)
    IN  IF kind = "pdf"
        THEN Finish("process_source", "none", <<>>, ProcessPdf(run.source, env.file), FALSE, FALSE)
        ELSE IF kind = "url" /\ Contains(Lower(run.source), "substack.com")
        THEN Finish("process_source", "none", <<>>, ProcessSubstack(env).items,
                    ProcessSubstack(env).raised, FALSE)
        ELSE IF kind = "url" /\ env.fetch # "ok"   \* requests.get raises
        THEN Finish("process_source", "none", <<>>, <<>>, TRUE, FALSE)
        ELSE IF kind = "url"
        THEN LET c == Classified(env, FALSE)
             IN  Finish("process_source", c.mode, c.processed, c.added, c.raised, FALSE)
        ELSE Finish("process_source", "none", <<>>, <<>>, FALSE, FALSE)

\* TechKnowledgeExtractor.process_generic_blog: an exception of
\* process_web_page is caught, inside the loop for a link and outside it for
\* the single page.
ProcessGenericBlog ==
    LET env == run.env
        c == Classified(env, TRUE)
    IN  IF env.fetch # "ok"   \* except Exception: logged
        THEN Finish("process_generic_blog", "none", <<>>, <<>>, FALSE, FALSE)
        ELSE Finish("process_generic_blog", c.mode, c.processed, c.added, FALSE, FALSE)

\* TechKnowledgeExtractor.process_substack
ProcessSubstackUrl ==
    Finish("process_substack", "none", <<>>, ProcessSubstack(run.env).items, FALSE, FALSE)

\* TechKnowledgeExtractor.process_pdf_file
ProcessPdfFile ==
    Finish("process_pdf_file", "none", <<>>, ProcessPdf(run.source, run.env.file), FALSE, FALSE)

\* TechKnowledgeExtractor.process_book_chapters_from_gdrive
ProcessBookChaptersFromGdrive ==
    Finish("process_book_chapters_from_gdrive", "none", <<>>, ProcessBookChapters(run.env),
           FALSE, FALSE)

\* process_interviewing_io_blog, process_interviewing_io_company_guides,
\* process_interviewing_io_interview_guides and process_nilmamano_dsa_posts
ProcessSiteMethod(site) ==
    Finish(SiteMethod(site), "none", <<>>, ProcessSite(site, run.env), FALSE, FALSE)

\* TechKnowledgeExtractor.process_all_sources: the four sites, the book when
\* a link is given, then save_output.
ProcessAllSources ==
    Finish("process_all_sources", "none", <<>>,
           ProcessSites(<<"interviewing_io_blog", "interviewing_io_company_guides", "interviewing_io_interview_guides",
                          "nilmamano_dsa_posts">>, run.env)
             \o ProcessBookChapters(run.env),
           FALSE, TRUE)

\* The caller calls the method once more, on the same tool object.
CallAgain ==
    /\ run.phase = "done"
    /\ run.calls < MaxCalls
    /\ run' = [run EXCEPT !.phase = "called"]
    /\ UNCHANGED <<items, probe, answers, extractors, returned, last, startup>>

NextClassify ==
    \/ ProcessSource
    \/ ProcessGenericBlog
    \/ ProcessSubstackUrl
    \/ ProcessPdfFile
    \/ ProcessBookChaptersFromGdrive
    \/ \E site \in Sites : ProcessSiteMethod(site)
    \/ ProcessAllSources
    \/ CallAgain

SpecClassify == InitClassify /\ [][NextClassify]_vars

\* The run classified a page: a method with the heuristic fetched its page.
ClassifiedPage ==
    /\ run.phase = "done"
    /\ \/ run.method = "process_generic_blog"
       \/ /\ run.method = "process_source"
          /\ DetectSourceType(run.source) = "url"
          /\ ~Contains(Lower(run.source), "substack.com")
    /\ run.env.fetch = "ok"

\* No page handed to process_web_page raised.
NoneRaised(urls, pages) == \A i \in DOMAIN urls : pages[urls[i]] # "raises"

(* C20: process_source and process_generic_blog treat a page as a listing
   page exactly when its article-element count is greater than 3 or its
   matching-link count is greater than 10: with 3 elements and 10 links the
   source itself is processed as a single article, with 4 elements or with 11
   links the links of the listing are processed. *)
C20_ListingIffAboveThreshold ==
    ClassifiedPage =>
        LET page == run.env
            expected == IF page.article_count > 3 \/ page.link_count > 10
                        THEN page.listed ELSE <<"source">>
        IN  /\ run.mode = "listing" <=> (page.article_count > 3 \/ page.link_count > 10)
            /\ run.mode \in {"listing", "single"}
            /\ (page.article_count = 3 /\ page.link_count = 10) =>
                  run.mode = "single" /\ run.processed = <<"source">>
            /\ (page.article_count = 4 \/ page.link_count = 11) =>
                  /\ run.mode = "listing"
                  /\ NoneRaised(page.listed, page.pages) => run.processed = page.listed
            /\ NoneRaised(expected, page.pages) =>
                  run.added = [i \in DOMAIN SelectSeq(expected, LAMBDA u : page.pages[u] = "record")
                                 |-> WebItem(SelectSeq(expected, LAMBDA u : page.pages[u] = "record")[i])]

\* A page with exactly 3 article elements and 10 matching links was processed
\* as a single article and gave its record.
C20_Witness ==
    /\ ClassifiedPage
    /\ run.env.article_count = 3
    /\ run.env.link_count = 10
    /\ run.env.listed = <<"link1", "link2">>
    /\ run.mode = "single"
    /\ items = <<WebItem("source")>>

----------------------------------------------------------------------------
(* SpecTable: the table step of ContentIngestionTool.html_to_markdown on a    *)
(* document that is one <table>.  A table is its <thead> (present or not;   *)
(* its cells stand in a <tr> or directly in the <thead>) and the rows of its  *)
(* <tbody>; a row is a sequence of cells, a cell has a tag (th or td) and a   *)
(* text.  A markdown line is the sequence of its tokens.                      *)

MaxColumns == 3
MaxRows == 2

\* ' | '.join(parts)
RECURSIVE JoinCells(_)
JoinCells(parts) ==
    IF parts = <<>> THEN <<>>
    ELSE IF Len(parts) = 1 THEN parts[1]
    ELSE parts[1] \o <<" | ">> \o JoinCells(Tail(parts))

\* '| ' + ' | '.join(parts) + ' |'
TableLine(parts) == <<"| ">> \o JoinCells(parts) \o <<" |">>

\* The texts (get_text().strip()) of the cells of a row that have one of the tags.
CellTexts(row, tags) ==
    LET kept == SelectSeq(row, LAMBDA cell : cell.tag \in tags)
    IN  [i \in DOMAIN kept |-> Strip(kept[i].text)]

\* table.find_all('tr'): the <tr> of the <thead>, if it has one, and the rows
\* of the <tbody>, in document order.
TableRows(table) ==
    (IF table.thead.present /\ table.thead.in_tr THEN <<table.thead.cells>> ELSE <<>>)
        \o table.body

\* headers: the th cells of the <thead>, else the cells of the first <tr>.
TableHeaders(table) ==
    IF table.thead.present THEN CellTexts(table.thead.cells, {"th"})
    ELSE IF TableRows(table) # <<>> THEN CellTexts(TableRows(table)[1], {"th", "td"})
    ELSE <<>>

RECURSIVE TableDataLines(_)
\* The loop over rows[start_idx:]: a line for each row that has cells.
TableDataLines(rows) ==
    IF rows = <<>> THEN <<>>
    ELSE (IF CellTexts(Head(rows), {"td", "th"}) # <<>>
          THEN <<TableLine(CellTexts(Head(rows), {"td", "th"}))>> ELSE <<>>)
            \o TableDataLines(Tail(rows))

\* The lines of markdown_table for one table.
TableToMarkdown(table) ==
    LET headers == TableHeaders(table)
        head == IF headers # <<>>
                THEN <<TableLine(headers), TableLine([i \in DOMAIN headers |-> <<"---">>])>>
                ELSE <<>>
        rows == TableRows(table)
        start_idx == IF headers # <<>> /\ ~table.thead.present THEN 1 ELSE 0
    IN  head \o TableDataLines(SubSeq(rows, start_idx + 1, Len(rows)))

\* A row of n cells of one tag; the text of a cell names its row and column.
CellRow(name, tag, n) == [j \in 1..n |-> [tag |-> tag, text |-> <<name, ToString(j)>>]]

\* The tables handed to html_to_markdown.
Tables ==
    { [ thead |-> thead, body |-> [r \in 1..rows |-> CellRow(<<"r", "s">>[r], tag, n)] ] :
        thead \in {[present |-> FALSE, in_tr |-> FALSE, cells |-> <<>>]}
                    \cup { [present |-> TRUE, in_tr |-> in_tr, cells |-> CellRow("h", htag, hn)] :
                             in_tr \in BOOLEAN, htag \in {"th", "td"}, hn \in 0..MaxColumns },
        rows \in 0..MaxRows, tag \in {"th", "td"}, n \in 1..MaxColumns }

InitTable ==
    /\ \E table \in Tables : run = [phase |-> "called", table |-> table]
    /\ probe = [source |-> <<>>, isfile |-> FALSE, net |-> FALSE]
    /\ answers = <<>>
    /\ extractors = <<>>
    /\ items = <<>>
    /\ returned = <<>>
    /\ last = [made |-> FALSE, empties |-> {}]
    /\ startup = <<>>

\* ContentIngestionTool.html_to_markdown
HtmlToMarkdown ==
    /\ run.phase = "called"
    /\ run' = [phase |-> "done", table |-> run.table, lines |-> TableToMarkdown(run.table)]
    /\ UNCHANGED <<probe, answers, extractors, items, returned, last, startup>>

NextTable == HtmlToMarkdown

SpecTable == InitTable /\ [][NextTable]_vars

\* The number of cells of a markdown line.
CellCount(line) == Cardinality({i \in DOMAIN line : line[i] = " | "}) + 1

(* C21: for a table whose <thead> has one row of 3 header cells and whose
   <tbody> has 2 rows of 3 cells, html_to_markdown gives exactly 4 lines: the
   header row, the separator row and the 2 data rows, each of 3 cells, and
   the header row is not repeated among the data rows. *)
C21_TableHasFourLines ==
    (/\ run.phase = "done"
     /\ run.table.thead.present
     /\ run.table.thead.in_tr
     /\ Len(CellTexts(run.table.thead.cells, {"th"})) = 3
     /\ Len(run.table.body) = 2
     /\ \A r \in 1..2 : Len(run.table.body[r]) = 3) =>
        /\ Len(run.lines) = 4
        /\ \A i \in DOMAIN run.lines : CellCount(run.lines[i]) = 3
        /\ run.lines[1] = TableLine(CellTexts(run.table.thead.cells, {"th"}))
        /\ \A i \in 2..Len(run.lines) : run.lines[i] # run.lines[1]

\* The links of a Substack listing, each once and in listing order, whose
\* post can be fetched and processed.
SucceedingLinks(env) ==
    SelectSeq(Unique(env.links), LAMBDA link : PostQualifies(env.posts[link], env.main_author))

(* C22: in the listing expansion of SubstackExtractor.extract a link that
   cannot be fetched does not stop the other links: the result is the concatenation,
   in listing order, of the records of exactly the links that can be fetched
   and processed, one attempt per link. *)
C22_ResultIsTheSucceedingLinks ==
    (/\ run.phase = "done"
     /\ run.kind = "SubstackExtractor"
     /\ run.env.fetch = "ok" /\ ~run.env.html_empty /\ run.env.archive_fetch = "ok"
     /\ \E i \in DOMAIN run.env.links : run.env.posts[run.env.links[i]].fetch # "ok") =>
        /\ ~run.out.raised
        /\ [i \in DOMAIN run.out.items |-> run.out.items[i].source_url] = SucceedingLinks(run.env)

(* C23: a second extract call of the same extractor on the same source, with
   the same content fetched, returns records equal to those of the first
   call in every field, whatever name the temporary file of a download was
   given. *)
C23_SameInputSameRecords ==
    (run.phase = "again" /\ run.source2 = run.source) => run.out2 = run.out

(* C24: when the page GenericBlogExtractor.extract fetches is a listing page
   (more than 3 article-card elements or more than 10 list-page links), the
   records it returns are records of the article links of the page, at most
   one per link and in page order, and none is made from the listing page
   itself. *)
C24_ListingPageIsExpanded ==
    (/\ run.phase = "done"
     /\ run.kind = "GenericBlogExtractor"
     /\ BlogCanHandle(run.source) = "True"
     /\ run.env.fetch = "ok" /\ ~run.env.html_empty
     /\ IsListPage(run.env.listing.article_count, run.env.listing.link_count)) =>
        /\ Len(run.out.items) <= Len(Unique(run.env.listing.links))
        /\ \A i \in DOMAIN run.out.items :
              /\ run.out.items[i].source_url # run.source
              /\ \E k \in DOMAIN run.env.listing.links :
                    run.out.items[i].source_url = <<run.env.listing.links[k]>>

----------------------------------------------------------------------------
(* SpecLocate: the main-content locators.  A page is the sequence of its     *)
(* block elements in document order, none inside another, and whether it has *)
(* a <body>.  An element has a tag, a class (written as its selector, "" for *)
(* none) and the length of its get_text(strip=True).                         *)

MaxElements == 2

\* An element matches a tag selector or a class selector.
Matches(element, selector) == element.tag = selector \/ element.class = selector

\* The elements left after decompose() of every element that matches one of
\* the noise selectors.
Decomposed(elements, noise) ==
    SelectSeq(elements, LAMBDA element : \A k \in DOMAIN noise : ~Matches(element, noise[k]))

\* soup.select_one(selector): the position of the first match, 0 without one.
SelectOne(elements, selector) ==
    LET found == {i \in DOMAIN elements : Matches(elements[i], selector)}
    IN  IF found = {} THEN 0 ELSE CHOOSE i \in found : \A j \in found : i <= j

\* The largest text block: the position of the first element of one of the
\* tags whose text is the longest and not empty, 0 without one.
LargestBlock(elements, tags) ==
    LET blocks == {i \in DOMAIN elements : elements[i].tag \in tags /\ elements[i].len > 0}
        largest == {i \in blocks : \A j \in blocks : elements[j].len <= elements[i].len}
    IN  IF blocks = {} THEN 0 ELSE CHOOSE i \in largest : \A j \in largest : i <= j

\* What a locator returns: an element of the page, or the body, or the whole
\* document.
Found(element) == [what |-> "element", element |-> element]
BodyOrDocument(page) ==
    [ what |-> IF page.has_body THEN "body" ELSE "document",
      element |-> [tag |-> "", class |-> "", len |-> 0] ]

\* self.article_selectors by default, and the selectors _extract_main_content
\* adds to it.
article_selectors == <<"article", ".post", ".entry", ".blog-post">>
BlogSelectors == article_selectors \o <<"main", ".content", ".post-content", ".entry-content">>
BlogNoise ==
    <<"script", "style", "nav", "header", "footer", ".ads", ".sidebar", ".comments", ".navbar",
      ".menu", ".navigation">>

\* GenericBlogExtractor._extract_main_content
BlogExtractMainContent(page) ==
    LET kept == Decomposed(page.elements, BlogNoise)
        good == {p \in DOMAIN BlogSelectors :
                    /\ SelectOne(kept, BlogSelectors[p]) # 0
                    /\ kept[SelectOne(kept, BlogSelectors[p])].len > 200}
        block == LargestBlock(kept, {"div", "section", "article"})
    IN  IF good # {}
        THEN Found(kept[SelectOne(kept, BlogSelectors[CHOOSE p \in good : \A q \in good : p <= q])])
        ELSE IF block # 0 /\ kept[block].len >= 200 THEN Found(kept[block])
        ELSE BodyOrDocument(page)

\* The selectors SubstackExtractor._process_post hands to extract_main_content.
SubstackSelectors == <<".single-post", ".post-content", ".substack-post", "article", ".post">>

\* The selectors and the noise extract_main_content itself uses.
UtilsSelectors == <<"main", "article", ".content", ".post", ".entry">>
UtilsNoise ==
    <<"script", "style", "nav", "header", "footer", ".ads", ".sidebar", ".comments", ".navbar">>

\* utils.extract_main_content(html, content_selectors) for a page that is not
\* empty.
ExtractMainContent(page, content_selectors) ==
    LET kept == Decomposed(page.elements, UtilsNoise)
        matched == {p \in DOMAIN UtilsSelectors : SelectOne(kept, UtilsSelectors[p]) # 0}
        block == LargestBlock(kept, {"div", "section"})
    IN  IF matched # {}
        THEN Found(kept[SelectOne(kept, UtilsSelectors[CHOOSE p \in matched : \A q \in matched : p <= q])])
        ELSE IF block # 0 THEN Found(kept[block])
        ELSE BodyOrDocument(page)

\* The elements of the pages.
PageElements ==
    { [tag |-> "main", class |-> "", len |-> 150],
      [tag |-> "div", class |-> ".single-post", len |-> 300],
      [tag |-> "article", class |-> "", len |-> 250],
      [tag |-> "div", class |-> ".content", len |-> 200],
      [tag |-> "div", class |-> ".sidebar", len |-> 400],
      [tag |-> "section", class |-> "", len |-> 201],
      [tag |-> "div", class |-> ".post", len |-> 100],
      [tag |-> "nav", class |-> "", len |-> 500] }

Pages ==
    [ elements : UNION {[1..n -> PageElements] : n \in 0..MaxElements}, has_body : BOOLEAN ]

InitLocate ==
    /\ \E page \in Pages : \E caller \in {"GenericBlogExtractor", "SubstackExtractor"} :
          run = [phase |-> "called", caller |-> caller, page |-> page]
    /\ probe = [source |-> <<>>, isfile |-> FALSE, net |-> FALSE]
    /\ answers = <<>>
    /\ extractors = <<>>
    /\ items = <<>>
    /\ returned = <<>>
    /\ last = [made |-> FALSE, empties |-> {}]
    /\ startup = <<>>

\* main_content_html = self._extract_main_content(soup) in _process_page
BlogLocate ==
    /\ run.phase = "called"
    /\ run.caller = "GenericBlogExtractor"
    /\ run' = [ phase |-> "done", caller |-> run.caller, page |-> run.page,
                selectors |-> BlogSelectors, noise |-> BlogNoise,
                main_content |-> BlogExtractMainContent(run.page) ]
    /\ UNCHANGED <<probe, answers, extractors, items, returned, last, startup>>

\* main_content_html = extract_main_content(html_content, [...]) in _process_post
SubstackLocate ==
    /\ run.phase = "called"
    /\ run.caller = "SubstackExtractor"
    /\ run' = [ phase |-> "done", caller |-> run.caller, page |-> run.page,
                selectors |-> SubstackSelectors, noise |-> UtilsNoise,
                main_content |-> ExtractMainContent(run.page, SubstackSelectors) ]
    /\ UNCHANGED <<probe, answers, extractors, items, returned, last, startup>>

NextLocate == BlogLocate \/ SubstackLocate

SpecLocate == InitLocate /\ [][NextLocate]_vars

(* C25: a main-content locator removes the noise elements, then returns the
   element of the first of the caller's selectors, in priority order, whose
   element has a text longer than 200 characters; if there is none, the
   div, section or article with the longest text (the first on a tie) when
   that text reaches the threshold; otherwise the body, or the whole document
   without a body. *)
C25_FirstSelectorAboveThreshold ==
    run.phase = "done" =>
        LET kept == Decomposed(run.page.elements, run.noise)
            good == {p \in DOMAIN run.selectors :
                        \E i \in DOMAIN kept :
                            /\ Matches(kept[i], run.selectors[p])
                            /\ \A j \in 1..(i - 1) : ~Matches(kept[j], run.selectors[p])
                            /\ kept[i].len > 200}
            blocks == {i \in DOMAIN kept : kept[i].tag \in {"div", "section", "article"}}
        IN  IF good # {}
            THEN LET first == CHOOSE p \in good : \A q \in good : p <= q
                 IN  /\ run.main_content.what = "element"
                     /\ Matches(run.main_content.element, run.selectors[first])
                     /\ run.main_content.element.len > 200
            ELSE IF \E i \in blocks : kept[i].len >= 200
            THEN /\ run.main_content.what = "element"
                 /\ \E i \in blocks :
                       /\ run.main_content.element = kept[i]
                       /\ \A j \in blocks : kept[j].len <= kept[i].len
            ELSE run.main_content.what = IF run.page.has_body THEN "body" ELSE "document"

----------------------------------------------------------------------------
(* SpecMeta: author and date resolution.  A page holds, for each signal, its  *)
(* elements in document order, each with whether it lies inside an element   *)
(* that _extract_main_content removes (script, style, nav, header, footer,   *)
(* .ads, .sidebar, .comments, .navbar, .menu, .navigation).  The author      *)
(* signals are the .author elements, the rel="author" elements, the          *)
(* itemprop="author" elements, the <meta name="author"> tags and the JSON-LD *)
(* scripts with an author.  The date signals are the <time> elements and the *)
(* .date elements (each with a datetime attribute, None without one, and a   *)
(* text), the <meta> tags with a content, and the JSON-LD scripts with a     *)
(* datePublished.  The resolvers read a soup: for each signal its first      *)
(* element, None or not present without one.                                 *)

\* GenericBlogExtractor._extract_author
BlogExtractAuthor(page) ==
    IF page.rel # None THEN page.rel
    ELSE IF page.class # None THEN page.class
    ELSE IF page.itemprop # None THEN page.itemprop
    ELSE IF page.meta # None THEN page.meta
    ELSE None

\* utils.extract_author
ExtractAuthor(page) ==
    IF page.class # None THEN page.class
    ELSE IF page.rel # None THEN page.rel
    ELSE IF page.itemprop # None THEN page.itemprop
    ELSE IF page.jsonld # None THEN page.jsonld
    ELSE None

\* The datetime attribute of a <time> or date element when it has one, else
\* its text.
DateOf(element) == IF element.datetime # None THEN element.datetime ELSE element.text

\* The properties _extract_date_published looks up in <meta property=...>.
BlogDateProperties == {"article:published_time", "published_time", "publication_date"}

\* GenericBlogExtractor._extract_date_published
BlogExtractDatePublished(page) ==
    IF page.time.present THEN DateOf(page.time)
    ELSE IF page.class.present THEN DateOf(page.class)
    ELSE IF page.meta.present /\ page.meta.attribute = "property"
            /\ page.meta.key \in BlogDateProperties
    THEN page.meta.content
    ELSE None

\* 'publish' in key or 'date' in key, for the keys of the pages.
MentionsPublishOrDate(key) == key \in {"article:published_time", "date"}

\* utils.extract_date_published
ExtractDatePublished(page) ==
    IF page.time.present THEN DateOf(page.time)
    ELSE IF page.meta.present /\ MentionsPublishOrDate(page.meta.key) THEN page.meta.content
    ELSE IF page.class.present THEN DateOf(page.class)
    ELSE IF page.jsonld # None THEN page.jsonld
    ELSE None

\* The elements of an author signal: none, one that stays, one that is
\* removed, one that is removed followed by one that stays.
AuthorElements(first, second) ==
    { <<>>, <<Element(<<first>>, FALSE)>>, <<Element(<<first>>, TRUE)>>,
      <<Element(<<first>>, TRUE), Element(<<second>>, FALSE)>> }

\* The pages with author signals.  A JSON-LD script is a script element.
AuthorPages ==
    [ class : AuthorElements("Ann (class)", "Zed (class)"),
      rel : AuthorElements("Bob (rel)", "Yan (rel)"),
      itemprop : AuthorElements("Cy (itemprop)", "Xi (itemprop)"),
      meta : AuthorElements("Di (meta)", "Wu (meta)"),
      jsonld : {<<>>, <<Element(<<"Ed (JSON-LD)">>, TRUE)>>} ]

\* The soup of an author page.
AuthorSoup(page) == [signal \in DOMAIN page |-> TextOfFirst(page[signal])]

\* A <time> or date element.
DateElement(name, datetime, removed) ==
    [ datetime |-> IF datetime THEN <<name, " datetime">> ELSE None, text |-> <<name, " text">>,
      removed |-> removed ]

\* The <time> and date elements of the pages.
DateElements(name) ==
    { <<>>, <<DateElement(name, FALSE, FALSE)>>, <<DateElement(name, TRUE, FALSE)>>,
      <<DateElement(name, TRUE, TRUE)>>,
      <<DateElement(name, TRUE, TRUE), DateElement(name, FALSE, FALSE)>> }

\* The pages with date signals.
DatePages ==
    [ time : DateElements("time"), class : DateElements("class"),
      meta : { <<>>,
               << [attribute |-> "name", key |-> "date", content |-> <<"meta date">>,
                   removed |-> FALSE] >>,
               << [attribute |-> "property", key |-> "article:published_time",
                   content |-> <<"meta published_time">>, removed |-> FALSE] >>,
               << [attribute |-> "property", key |-> "article:published_time",
                   content |-> <<"meta published_time">>, removed |-> TRUE] >> },
      jsonld : {<<>>, <<Element(<<"JSON-LD date">>, TRUE)>>} ]

\* The soup of a date page.
DateSoup(page) ==
    [ time |-> IF page.time = <<>> THEN [present |-> FALSE, datetime |-> None, text |-> <<>>]
               ELSE [ present |-> TRUE, datetime |-> page.time[1].datetime,
                      text |-> page.time[1].text ],
      class |-> IF page.class = <<>> THEN [present |-> FALSE, datetime |-> None, text |-> <<>>]
                ELSE [ present |-> TRUE, datetime |-> page.class[1].datetime,
                       text |-> page.class[1].text ],
      meta |-> IF page.meta = <<>>
               THEN [present |-> FALSE, attribute |-> "name", key |-> "date", content |-> <<>>]
               ELSE [ present |-> TRUE, attribute |-> page.meta[1].attribute,
                      key |-> page.meta[1].key, content |-> page.meta[1].content ],
      jsonld |-> TextOfFirst(page.jsonld) ]

\* The page after _extract_main_content(soup): the elements inside what it
\* decomposed are gone from the soup.
CleanedByMainContent(page) == [signal \in DOMAIN page |-> Remaining(page[signal])]

InitMeta ==
    /\ \E caller \in {"GenericBlogExtractor", "utils"} :
          \/ \E page \in AuthorPages :
                run = [phase |-> "called", caller |-> caller, field |-> "author", page |-> page]
          \/ \E page \in DatePages :
                run = [phase |-> "called", caller |-> caller, field |-> "date", page |-> page]
    /\ probe = [source |-> <<>>, isfile |-> FALSE, net |-> FALSE]
    /\ answers = <<>>
    /\ extractors = <<>>
    /\ items = <<>>
    /\ returned = <<>>
    /\ last = [made |-> FALSE, empties |-> {}]
    /\ startup = <<>>

\* The call of one resolver, answering value.
Resolve(caller, field, value) ==
    /\ run.phase = "called"
    /\ run.caller = caller
    /\ run.field = field
    /\ run' = [ phase |-> "done", caller |-> caller, field |-> field, page |-> run.page,
                value |-> value ]
    /\ UNCHANGED <<probe, answers, extractors, items, returned, last, startup>>

\* _process_page: author = self._extract_author(soup), on the soup that
\* _extract_main_content(soup) has cleaned.
BlogAuthor ==
    /\ run.field = "author"
    /\ Resolve("GenericBlogExtractor", "author",
               BlogExtractAuthor(AuthorSoup(CleanedByMainContent(run.page))))

\* author = extract_author(html_content), which parses the page as fetched.
UtilsAuthor ==
    run.field = "author" /\ Resolve("utils", "author", ExtractAuthor(AuthorSoup(run.page)))

\* _process_page: date_published = self._extract_date_published(soup), on the
\* soup that _extract_main_content(soup) has cleaned.
BlogDate ==
    /\ run.field = "date"
    /\ Resolve("GenericBlogExtractor", "date",
               BlogExtractDatePublished(DateSoup(CleanedByMainContent(run.page))))

\* date_published = extract_date_published(html_content), which parses the
\* page as fetched.
UtilsDate ==
    run.field = "date" /\ Resolve("utils", "date", ExtractDatePublished(DateSoup(run.page)))

NextMeta == BlogAuthor \/ UtilsAuthor \/ BlogDate \/ UtilsDate

SpecMeta == InitMeta /\ [][NextMeta]_vars

(* C26: author resolution returns the first author signal present in the
   order: author-class element, rel="author" or itemprop="author" element,
   <meta> author, JSON-LD author; and None only when the page has none of
   them. *)
C26_AuthorByFixedPriority ==
    (run.phase = "done" /\ run.field = "author") =>
        LET page == AuthorSoup(run.page)
        IN  IF page.class # None THEN run.value = page.class
            ELSE IF page.rel # None \/ page.itemprop # None
            THEN run.value \in ({page.rel, page.itemprop} \ {None})
            ELSE IF page.meta # None THEN run.value = page.meta
            ELSE IF page.jsonld # None THEN run.value = page.jsonld
            ELSE run.value = None

(* C27: date resolution returns the first date signal present in the order:
   the datetime attribute of <time>, its text, the date-class element
   (datetime attribute before text), a <meta> with publish or date in its
   name or property, the JSON-LD datePublished; a date-class element wins
   over a matching <meta>, and None only when the page has none of them. *)
C27_DateByFixedPriority ==
    (run.phase = "done" /\ run.field = "date") =>
        LET page == DateSoup(run.page)
        IN  IF page.time.present THEN run.value = DateOf(page.time)
            ELSE IF page.class.present THEN run.value = DateOf(page.class)
            ELSE IF page.meta.present /\ MentionsPublishOrDate(page.meta.key)
            THEN run.value = page.meta.content
            ELSE IF page.jsonld # None THEN run.value = page.jsonld
            ELSE run.value = None

(* C28: when the page has both an <h1> and a <title>, the title of the
   record GenericBlogExtractor.extract makes for the article is the text of
   the <h1>. *)
C28_HeadingPreferredOverDocumentTitle ==
    (/\ run.phase = "done"
     /\ run.kind = "GenericBlogExtractor"
     /\ run.env.page.h1 # None
     /\ run.env.page.title # None /\ Strip(run.env.page.title) # <<>>
     /\ run.out.items # <<>>) =>
        \A i \in DOMAIN run.out.items : run.out.items[i].title = Strip(run.env.page.h1)

\* The lines of a text that are markdown heading lines: they start with "# ".
HeadingLines(text) ==
    {i \in DOMAIN text : Len(text[i]) >= 2 /\ text[i][1] = "#" /\ text[i][2] = " "}

\* The text of the first heading line of a text that has one.
FirstHeading(text) ==
    LET i == CHOOSE h \in HeadingLines(text) : \A k \in HeadingLines(text) : h <= k
    IN  Strip(SubSeq(text[i], 3, Len(text[i])))

(* C29: the title of a documentation-file record of GitHubExtractor is the
   text of the first line of the file that starts with "# ", whatever plain
   lines precede it, and is "<repo> - <filename>" when the file has no such
   line. *)
C29_TitleIsFirstHeadingLine ==
    (run.phase = "done" /\ run.kind = "GitHubExtractor") =>
        \A i \in DocRecords(run.out.items) :
            \A d \in DOMAIN run.env.dirs :
                \A k \in DOMAIN run.env.dirs[d].contents :
                    LET file == run.env.dirs[d].contents[k]
                        record == run.out.items[i]
                        repo == PathSplit(urlparse(run.source).path)[2]
                    IN  (file.html_url = record.source_url /\ file.text = record.content) =>
                            record.title = IF HeadingLines(file.text) # {}
                                           THEN FirstHeading(file.text)
                                           ELSE repo \o <<" - ">> \o file.name

(* C30: whatever calls of ExtractorManager.extract were made since the last
   reset, no two records of ExtractorManager.items have the same id:
   extracting a source a second time adds no duplicate of a record already
   accumulated. *)
C30_NoTwoItemsShareAnId ==
    \A i, j \in DOMAIN items : i # j => items[i].id # items[j].id

====
